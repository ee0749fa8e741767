------------------------------- MODULE Accounts -------------------------------
(***************************************************************************)
(* A player's account (src/backend/modules/api/src/auth.rs,                *)
(* security/src/token_service.rs): registration, login, refresh tokens     *)
(* that are exchanged for new ones of the same family, reuse of a token as *)
(* a sign of theft, logout, and tickets for a socket.  Requests overlap;   *)
(* each statement to the database or to Redis is a step and may fail, and  *)
(* then the request ends.  One player; the tokens of others have another   *)
(* player_id and are never found for this one.                             *)
(***************************************************************************)
EXTENDS Naturals, FiniteSets, Sequences

CONSTANTS
    Devices,    \* slots for requests in flight
    MaxTokens,  \* bound of the model: rows of refresh_tokens
    MaxTickets  \* bound of the model: tickets that are issued

ASSUME AccountsAssumption ==
    IsFiniteSet(Devices) /\ MaxTokens \in Nat /\ MaxTickets \in Nat

VARIABLES
    known,      \* the player has a row
    tokens,     \* refresh_tokens: family, used_at, is_revoked
    access,     \* how many access tokens are good
    blacklisted,\* how many access tokens have their jti on the blacklist, until they expire
    call,       \* of every slot: what the request does next, and with which token
    condemned,  \* history: families that a reuse or a logout has revoked
    raced,      \* history: tokens that two overlapping refreshes exchanged
    tickets,    \* ws_ticket entries in Redis
    sockets     \* history: sockets opened with each ticket

accountVars == <<known, tokens, access, blacklisted, call, condemned, raced, tickets, sockets>>
accessVars == <<access, blacklisted>>
tokenVars == <<known, tokens, accessVars, condemned, raced>>
ticketVars == <<tickets, sockets>>

Waiting == [step |-> "none", token |-> 0, seen |-> FALSE]

AccountsInit ==
    /\ known = FALSE
    /\ tokens = <<>> /\ access = 0 /\ blacklisted = 0
    /\ call = [c \in Devices |-> Waiting]
    /\ condemned = {} /\ raced = {}
    /\ tickets = {} /\ sockets = <<>>

Families == {tokens[t].family : t \in DOMAIN tokens}

\* Mutant: a revoked token is as good as another.
BadGood(t) == ~tokens[t].used

Good(t) == ~tokens[t].used /\ ~tokens[t].revoked

\* A new access token, under a jti of its own.
GenerateToken == access' = access + 1 /\ UNCHANGED blacklisted

\* validate_token: signed by the server and not expired.
HasValidToken == access + blacklisted > 0

\* The jti of a token joins the blacklist for as long as the token lasts.
AddJtiToBlacklist == access > 0 /\ access' = access - 1 /\ blacklisted' = blacklisted + 1

\* A refresh token and an access token; late: the family was revoked meanwhile.
GenerateTokens(family, late) ==
    /\ Len(tokens) < MaxTokens  \* bound
    /\ tokens' = Append(tokens, [family |-> family, used |-> FALSE, revoked |-> FALSE,
                                 late |-> late])
    /\ GenerateToken

NewFamily == Cardinality(Families) + 1

Step(c, what) == call' = [call EXCEPT ![c].step = what]

Ends(c) == call' = [call EXCEPT ![c] = Waiting]

At(c, what) == call[c].step = what

(***************************************************************************)
(* Registration and login                                                  *)
(***************************************************************************)
\* The name is looked up first; the unique keys decide between two registrations.
RegisterInserts(c) ==
    /\ At(c, "none") /\ ~known
    /\ known' = TRUE
    /\ Step(c, "welcome")
    /\ UNCHANGED <<tokens, accessVars, condemned, raced, ticketVars>>

RegisterIssues(c) ==
    /\ At(c, "welcome")
    /\ GenerateTokens(NewFamily, FALSE)
    /\ Ends(c)
    /\ UNCHANGED <<known, condemned, raced, ticketVars>>

Login(c) ==
    /\ At(c, "none") /\ known
    /\ GenerateTokens(NewFamily, FALSE)
    /\ UNCHANGED <<known, call, condemned, raced, ticketVars>>

(***************************************************************************)
(* refresh                                                                 *)
(***************************************************************************)
\* Only a player whose access token has not expired may refresh; when Redis cannot be
\* asked, no token counts as blacklisted.
Refresh(c, t) ==
    /\ At(c, "none") /\ HasValidToken
    /\ call' = [call EXCEPT ![c] = [step |-> "find", token |-> t, seen |-> FALSE]]
    /\ UNCHANGED <<tokenVars, ticketVars>>

\* How long ago the token was issued is left open: any unused one may have expired.
FindToken(c) ==
    LET t == call[c].token
    IN
    /\ At(c, "find")
    /\ \/ tokens[t].used /\ Step(c, "reuse")
       \/ ~tokens[t].used /\ Ends(c)
       \/ /\ Good(t)
          /\ call' = [call EXCEPT ![c].step = "mark",
                                  ![c].seen = tokens[t].family \in condemned /\ ~tokens[t].late]
    /\ UNCHANGED <<tokenVars, ticketVars>>

\* The update does not ask again whether the token is unused.
MarkUsed(c) ==
    LET t == call[c].token
    IN
    /\ At(c, "mark")
    /\ tokens' = [tokens EXCEPT ![t].used = TRUE]
    /\ raced' = IF tokens[t].used THEN raced \cup {t} ELSE raced
    /\ Step(c, "issue")
    /\ UNCHANGED <<known, accessVars, condemned, ticketVars>>

IssueSuccessor(c) ==
    LET family == tokens[call[c].token].family
    IN
    /\ At(c, "issue")
    /\ GenerateTokens(family, family \in condemned /\ ~call[c].seen)
    /\ Ends(c)
    /\ UNCHANGED <<known, condemned, raced, ticketVars>>

RevokeAll(families) ==
    /\ tokens' = [t \in DOMAIN tokens |->
                    [tokens[t] EXCEPT !.revoked = @ \/ tokens[t].family \in families]]
    /\ condemned' = condemned \cup families

InvalidateTokenFamily(c) ==
    /\ At(c, "reuse")
    /\ RevokeAll({tokens[call[c].token].family})
    /\ Ends(c)
    /\ UNCHANGED <<known, accessVars, raced, ticketVars>>

(***************************************************************************)
(* logout and logout_all                                                   *)
(***************************************************************************)
\* The blacklist is written first; when that fails the logout goes on.  Whether the
\* token has been revoked before is not asked.
Logout(c) ==
    /\ At(c, "none") /\ HasValidToken
    /\ UNCHANGED accessVars \/ AddJtiToBlacklist
    /\ Step(c, "revoke")
    /\ UNCHANGED <<known, tokens, condemned, raced, ticketVars>>

RevokePlayerTokens(c) ==
    /\ At(c, "revoke")
    /\ RevokeAll(Families)
    /\ Ends(c)
    /\ UNCHANGED <<known, accessVars, raced, ticketVars>>

\* The database or Redis fails, or the client is gone.
CallFails(c) ==
    /\ ~At(c, "none")
    /\ Ends(c)
    /\ UNCHANGED <<tokenVars, ticketVars>>

AccessExpires ==
    /\ \/ access > 0 /\ access' = access - 1 /\ UNCHANGED blacklisted
       \/ blacklisted > 0 /\ blacklisted' = blacklisted - 1 /\ UNCHANGED access
    /\ UNCHANGED <<known, tokens, call, condemned, raced, ticketVars>>

(***************************************************************************)
(* Tickets for a socket                                                    *)
(***************************************************************************)
IssueWsTicket ==
    /\ access > 0 /\ Len(sockets) < MaxTickets
    /\ tickets' = tickets \cup {Len(sockets) + 1}
    /\ sockets' = Append(sockets, 0)
    /\ UNCHANGED <<tokenVars, call>>

\* GET and DEL in one script: the first of several upgrades takes the ticket, even when
\* its owner has logged out meanwhile.
Upgrade(k) ==
    /\ k \in tickets
    /\ tickets' = tickets \ {k}
    /\ sockets' = [sockets EXCEPT ![k] = @ + 1]
    /\ UNCHANGED <<tokenVars, call>>

TicketExpires(k) ==
    /\ k \in tickets
    /\ tickets' = tickets \ {k}
    /\ UNCHANGED <<tokenVars, call, sockets>>

SignsInAndOut(c) == RegisterInserts(c) \/ RegisterIssues(c) \/ Login(c) \/ Logout(c)

TokensNext ==
    \/ \E c \in Devices :
        \/ SignsInAndOut(c) \/ RevokePlayerTokens(c) \/ CallFails(c)
        \/ \E t \in DOMAIN tokens : Refresh(c, t)
        \/ FindToken(c) \/ MarkUsed(c) \/ IssueSuccessor(c) \/ InvalidateTokenFamily(c)
    \/ AccessExpires

TicketsNext ==
    \/ IssueWsTicket
    \/ \E k \in tickets : Upgrade(k) \/ TicketExpires(k)

AccountsNext == TokensNext \/ TicketsNext

AccountsSpec == AccountsInit /\ [][AccountsNext]_accountVars

(***************************************************************************)
(* Conditions that hold                                                    *)
(***************************************************************************)
\* Of a family that was revoked, by a reuse or by a logout, only those tokens are left
\* that a refresh issued which had found its token good before.  A family has one live
\* token, unless two refreshes overlapped over one token.  A ticket opens one socket.
TokensSound ==
    /\ \A t \in DOMAIN tokens : tokens[t].family \in condemned /\ ~tokens[t].revoked => tokens[t].late
    /\ \A f \in Families :
        Cardinality({t \in DOMAIN tokens : tokens[t].family = f /\ ~tokens[t].used
                                            /\ ~tokens[t].revoked})
            <= 1 + Cardinality({t \in raced : tokens[t].family = f}) * (Cardinality(Devices) - 1)
    /\ \A k \in DOMAIN sockets : sockets[k] <= 1 /\ (k \in tickets => sockets[k] = 0)
-----------------------------------------------------------------------------
(***************************************************************************)
(* Linking a wallet to a player (src/backend/modules/api/src/              *)
(* wallet_link.rs): a challenge is kept in Redis under the player, is      *)
(* taken by the first answer, right or wrong, and a right one is followed  *)
(* by a look for another owner of the wallet and a write.  Several answers *)
(* run at once; the unique index on wallet_address (src/backend/modules/   *)
(* db/migrations/src/m20261017_000001_add_player_wallet_address.rs)        *)
(* decides between them.  A signature is the wallet whose key made it and  *)
(* the challenge that was signed.                                          *)
(***************************************************************************)
CONSTANTS
    Members, Wallets,
    KeysOf,         \* the wallets whose key a player has
    NoWallet,
    Answers,        \* slots for requests in flight
    MaxChallenges   \* bound of the model

ASSUME WalletAssumption ==
    /\ KeysOf \in [Members -> SUBSET Wallets]
    /\ NoWallet \notin Wallets
    /\ MaxChallenges \in Nat

VARIABLES
    challenge,      \* wallet_link:challenge:<player>: its number and the wallet, or none
    issued,         \* challenges issued
    link,           \* wallet_address
    answer,         \* of every slot: next step, player and wallet
    answered        \* history: how often each challenge was taken

walletVars == <<challenge, issued, link, answer, answered>>

NoChallenge == [number |-> 0, wallet |-> NoWallet]

NoAnswer(p) == [step |-> "none", player |-> p, wallet |-> NoWallet]

WalletInit ==
    /\ challenge = [p \in Members |-> NoChallenge]
    /\ issued = 0
    /\ link = [p \in Members |-> NoWallet]
    /\ answer = [a \in Answers |-> NoAnswer(CHOOSE p \in Members : TRUE)]
    /\ answered = [n \in 1..MaxChallenges |-> 0]

\* A new challenge replaces the one the player has.
WalletChallenge(p, w) ==
    /\ issued < MaxChallenges
    /\ issued' = issued + 1
    /\ challenge' = [challenge EXCEPT ![p] = [number |-> issued', wallet |-> w]]
    /\ UNCHANGED <<link, answer, answered>>

VerifyWalletSignature(signer, w) == signer = w

Taken(p) == challenge' = [challenge EXCEPT ![p] = NoChallenge]

Counted(p) == answered' = [answered EXCEPT ![challenge[p].number] = @ + 1]

\* GETDEL: the challenge is gone even if the answer is wrong.  The signer signs with any
\* key the player has.
TakeChallenge(a, p, w, signer) ==
    /\ answer[a].step = "none" /\ challenge[p] # NoChallenge
    /\ signer \in KeysOf[p]
    /\ Taken(p) /\ Counted(p)
    /\ answer' = IF challenge[p].wallet = w /\ VerifyWalletSignature(signer, w)
                 THEN [answer EXCEPT ![a] = [step |-> "look", player |-> p, wallet |-> w]]
                 ELSE answer
    /\ UNCHANGED <<issued, link>>

Ended(a) == answer' = [answer EXCEPT ![a] = NoAnswer(answer[a].player)]

LookForOwner(a) ==
    /\ answer[a].step = "look"
    /\ IF \E p \in Members \ {answer[a].player} : link[p] = answer[a].wallet
       THEN Ended(a)
       ELSE answer' = [answer EXCEPT ![a].step = "write"]
    /\ UNCHANGED <<challenge, issued, link, answered>>

\* The unique index of the column.
IndexAllows(p, w) == \A q \in Members \ {p} : link[q] # w

WriteLink(a) ==
    LET p == answer[a].player
        w == answer[a].wallet
    IN
    /\ answer[a].step = "write"
    /\ link' = IF IndexAllows(p, w) THEN [link EXCEPT ![p] = w] ELSE link
    /\ Ended(a)
    /\ UNCHANGED <<challenge, issued, answered>>

WalletUnlink(p) ==
    /\ link[p] # NoWallet
    /\ link' = [link EXCEPT ![p] = NoWallet]
    /\ UNCHANGED <<challenge, issued, answer, answered>>

ChallengeExpires(p) ==
    /\ challenge[p] # NoChallenge
    /\ Taken(p)
    /\ UNCHANGED <<issued, link, answer, answered>>

AnswerFails(a) ==
    /\ answer[a].step # "none"
    /\ Ended(a)
    /\ UNCHANGED <<challenge, issued, link, answered>>

WalletNext ==
    \/ \E p \in Members, w \in Wallets :
        \/ WalletChallenge(p, w)
        \/ \E a \in Answers, signer \in Wallets : TakeChallenge(a, p, w, signer)
    \/ \E a \in Answers : LookForOwner(a) \/ WriteLink(a) \/ AnswerFails(a)
    \/ \E p \in Members : WalletUnlink(p) \/ ChallengeExpires(p)

WalletSpec == WalletInit /\ [][WalletNext]_walletVars

\* A linked wallet is its player's own and nobody else's link, whatever answers overlap,
\* and a challenge is answered once.
WalletsSound ==
    /\ \A p \in Members : link[p] = NoWallet \/ link[p] \in KeysOf[p]
    /\ \A p, q \in Members : p # q => link[p] = NoWallet \/ link[p] # link[q]
    /\ \A n \in 1..MaxChallenges : answered[n] <= 1
=============================================================================
