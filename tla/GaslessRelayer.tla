---------------------------- MODULE GaslessRelayer ----------------------------
(***************************************************************************)
(* Relayers submit what players have signed                                *)
(* (src/contracts/gasless_relayer/src/lib.rs).  Everything a player has    *)
(* ever signed may arrive at any time, again and again, from any relayer:  *)
(* the requests are a constant and every action picks any of them.  A      *)
(* digest binds neither the player nor, of a forwarded call, its target,   *)
(* function and arguments; a request here is what is executed, and its     *)
(* player whom it names.  A forwarded call runs with this contract's own   *)
(* authority, and may move the staked token or approve a spender of it.    *)
(* What else it does in its target, and its fee, are outside of this       *)
(* contract.  All matches stake one token; deposits from elsewhere are     *)
(* left out.  An error of a call undoes all of it and is not a step.       *)
(***************************************************************************)
EXTENDS Integers, FiniteSets, Sequences, Functions

CONSTANTS
    Players, Relayers, RelayedGames,
    Keys,           \* signer keys; NoKey: none is registered
    NoKey,
    NoPlayer,
    Wagers,
    MaxBatch,
    MaxNonce,       \* bound: nonces
    LastLedger      \* bound: the clock

ASSUME RelayerAssumption ==
    /\ IsFiniteSet(RelayedGames)
    /\ NoKey \notin Keys
    /\ NoPlayer \notin Players
    /\ Wagers \subseteq Nat \ {0}
    /\ {MaxBatch, MaxNonce} \subseteq Nat
    /\ LastLedger \in Nat \ {0}

VARIABLES
    nonce,          \* UserNonce
    signer,         \* PlayerSigner
    allowed,        \* whitelisted relayers
    openRelayers,
    halted,         \* Paused
    escrow,         \* MatchEscrow
    pot,            \* the contract's balance of the token
    lent,           \* in the token: whether somebody may spend the contract's balance
    relayed,        \* TotalRelayedCount
    volume,         \* TotalVolumeStaked
    ledger,         \* the ledger sequence
    bumps,          \* history: nonces given up
    executed,       \* history: what was executed
    spent           \* history: tokens that left by forwarded calls or their spenders

tokenVars == <<pot, lent, spent>>

relayerVars == <<nonce, signer, allowed, openRelayers, halted, escrow, tokenVars, relayed,
                 volume, ledger, bumps, executed>>

\* A request as far as it matters once it is executed, and what surrounds it.
Stakings == [from : Players, nonce : 0..MaxNonce, does : {"create", "join"},
             match : RelayedGames, wager : Wagers]
Forwards == [from : Players, nonce : 0..MaxNonce, does : {"forward"}]
Envelopes == [key : Keys, validUntil : 0..LastLedger]

Unescrowed ==
    [state |-> "none", player1 |-> NoPlayer, player2 |-> NoPlayer, wager |-> 0, pot |-> 0]

RelayerInit ==
    /\ nonce = [p \in Players |-> 0]
    /\ signer = [p \in Players |-> NoKey]
    /\ allowed = {}
    /\ openRelayers \in BOOLEAN
    /\ halted = FALSE
    /\ escrow = [m \in RelayedGames |-> Unescrowed]
    /\ pot = 0 /\ lent = FALSE /\ spent = 0
    /\ relayed = 0
    /\ volume = 0
    /\ ledger = 1
    /\ bumps = [p \in Players |-> 0]
    /\ executed = {}

Administration == <<signer, allowed, openRelayers, halted, ledger>>

\* Without a registered key, any key that matches the signature will do.
Accepted(q, s, relayer) ==
    /\ ~halted
    /\ openRelayers \/ relayer \in allowed
    /\ s.validUntil = 0 \/ ledger <= s.validUntil
    /\ signer[q.from] \in {NoKey, s.key}

BadInTurn(q, n) == q.nonce >= n

\* Replay protection: the nonce is the next one of its player.
InTurn(q, n) == q.nonce = n

BadPot(m, q) == q.wager

Pot(m, q) == escrow[m].pot + q.wager

Opened(q) == [state |-> "created", player1 |-> q.from, player2 |-> NoPlayer,
              wager |-> q.wager, pot |-> q.wager]

MayJoin(m, q) ==
    /\ escrow[m].state = "created"
    /\ escrow[m].player2 = NoPlayer
    /\ escrow[m].player1 # q.from
    /\ escrow[m].wager = q.wager

Joined(m, q) ==
    [escrow[m] EXCEPT !.player2 = q.from, !.pot = Pot(m, q), !.state = "active"]

GaslessStakeMatch(q, s, relayer) ==
    /\ Accepted(q, s, relayer)
    /\ InTurn(q, nonce[q.from])
    /\ \/ q.does = "create" /\ escrow[q.match].state = "none"
       \/ q.does = "join" /\ MayJoin(q.match, q)
    /\ nonce' = [nonce EXCEPT ![q.from] = @ + 1]
    /\ escrow' = [escrow EXCEPT ![q.match] =
                    IF q.does = "create" THEN Opened(q) ELSE Joined(q.match, q)]
    /\ pot' = pot + q.wager
    /\ relayed' = relayed + 1
    /\ volume' = volume + q.wager
    /\ executed' = executed \cup {q}
    /\ UNCHANGED <<Administration, bumps, lent, spent>>

\* What a forwarded call, or a spender it has approved, takes from the contract.
TokensLeave ==
    \E left \in 0..pot : pot' = left /\ spent' = spent + (pot - left)

EarlierOf(batch, i, p) == {j \in 1..(i - 1) : batch[j].from = p}

\* execute_meta_transaction is a batch of one.  The requests run one after the other,
\* each with its own key and the nonces its predecessors have left, and all of them or none.
\* The contract is the invoker of what they call, whatever that is.
ExecuteMetaTxBatch(batch, relayer) ==
    /\ \A i \in DOMAIN batch :
        /\ \E s \in Envelopes : Accepted(batch[i], s, relayer)
        /\ InTurn(batch[i], nonce[batch[i].from]
                            + Cardinality(EarlierOf(batch, i, batch[i].from)))
    /\ nonce' = [p \in Players |->
                    nonce[p] + Cardinality({i \in DOMAIN batch : batch[i].from = p})]
    /\ relayed' = relayed + Len(batch)
    /\ executed' = executed \cup {batch[i] : i \in DOMAIN batch}
    /\ TokensLeave
    /\ lent' \in {lent, TRUE}
    /\ UNCHANGED <<Administration, escrow, volume, bumps>>

\* Whom a forwarded call has approved takes tokens from the contract, which is not asked.
SpenderTakes ==
    /\ lent /\ TokensLeave
    /\ UNCHANGED <<Administration, nonce, escrow, lent, relayed, volume, bumps, executed>>

\* A player gives up whatever he signed with the current nonce.
BumpNonce(p) ==
    /\ nonce[p] < MaxNonce
    /\ nonce' = [nonce EXCEPT ![p] = @ + 1]
    /\ bumps' = [bumps EXCEPT ![p] = @ + 1]
    /\ UNCHANGED <<Administration, escrow, tokenVars, relayed, volume, executed>>

\* The contract pays if it can.
Pays(sum) == pot >= sum /\ pot' = pot - sum

\* The winner takes the pot; after a draw each gets his wager back.
SettleRelayed(m, winner) ==
    /\ escrow[m].state = "active"
    /\ winner \in {escrow[m].player1, escrow[m].player2, NoPlayer}
    /\ Pays(IF winner = NoPlayer THEN 2 * escrow[m].wager ELSE escrow[m].pot)
    /\ escrow' = [escrow EXCEPT ![m].state = "settled"]
    /\ UNCHANGED <<Administration, nonce, relayed, volume, bumps, executed, lent, spent>>

CancelUnmatchedGame(m) ==
    /\ escrow[m].state = "created"
    /\ escrow[m].player2 = NoPlayer
    /\ Pays(escrow[m].wager)
    /\ escrow' = [escrow EXCEPT ![m].state = "cancelled"]
    /\ UNCHANGED <<Administration, nonce, relayed, volume, bumps, executed, lent, spent>>

Administer ==
    /\ \/ \E p \in Players, k \in Keys :
            /\ signer' = [signer EXCEPT ![p] = k]
            /\ UNCHANGED <<allowed, openRelayers, halted, ledger>>
       \/ \E r \in Relayers : allowed' \in {allowed \cup {r}, allowed \ {r}}
            /\ UNCHANGED <<signer, openRelayers, halted, ledger>>
       \/ openRelayers' = ~openRelayers /\ UNCHANGED <<signer, allowed, halted, ledger>>
       \/ halted' = ~halted /\ UNCHANGED <<signer, allowed, openRelayers, ledger>>
       \/ /\ ledger < LastLedger /\ ledger' = ledger + 1
          /\ UNCHANGED <<signer, allowed, openRelayers, halted>>
    /\ UNCHANGED <<nonce, escrow, tokenVars, relayed, volume, bumps, executed>>

Batches == UNION {[1..n -> {q \in Forwards : q.nonce < MaxNonce}] : n \in 1..MaxBatch}

RelayerNext ==
    \/ \E r \in Relayers :
        \/ \E s \in Envelopes, q \in Stakings :
            q.nonce < MaxNonce /\ GaslessStakeMatch(q, s, r)
        \/ \E batch \in Batches : ExecuteMetaTxBatch(batch, r)
    \/ \E p \in Players : BumpNonce(p)
    \/ \E m \in RelayedGames :
        \/ \E w \in Players \cup {NoPlayer} : SettleRelayed(m, w)
        \/ CancelUnmatchedGame(m)
    \/ SpenderTakes
    \/ Administer

RelayerSpec == RelayerInit /\ [][RelayerNext]_relayerVars

(***************************************************************************)
(* Properties                                                              *)
(***************************************************************************)
\* Every variable keeps its type.
RelayerTypeOK ==
    /\ nonce \in [Players -> 0..MaxNonce]
    /\ signer \in [Players -> Keys \cup {NoKey}]
    /\ allowed \subseteq Relayers
    /\ {openRelayers, halted} \subseteq BOOLEAN
    /\ escrow \in [RelayedGames ->
                     [state : {"none", "created", "active", "settled", "cancelled"},
                      player1 : Players \cup {NoPlayer},
                      player2 : Players \cup {NoPlayer}, wager : Nat, pot : Nat]]
    /\ {pot, spent, relayed, volume} \subseteq Nat /\ lent \in BOOLEAN
    /\ ledger \in 1..LastLedger
    /\ bumps \in [Players -> 0..MaxNonce]
    /\ executed \subseteq Stakings \cup Forwards

\* No request is executed twice, whatever is replayed, batched or submitted by several
\* relayers, and of all requests that name one nonce of a player one is executed at most;
\* none with a nonce he gave up is.
ExecutedOnce ==
    /\ relayed = Cardinality(executed)
    /\ \A q, r \in executed : q.from = r.from /\ q.nonce = r.nonce => q = r
    /\ \A p \in Players :
        nonce[p] = bumps[p] + Cardinality({q \in executed : q.from = p})

StakesIn(m) == {q \in executed : q.does # "forward" /\ q.match = m}

WagerOf == [q \in Stakings |-> q.wager]

PotOf == [m \in RelayedGames |-> escrow[m].pot]

HeldFor ==
    [m \in RelayedGames |->
        IF escrow[m].state \in {"created", "active"} THEN escrow[m].pot ELSE 0]

\* What the contract holds falls short of the pots of the matches that are neither settled
\* nor cancelled by what forwarded calls and their spenders took, and by nothing else: without
\* such a call every match can be paid.  The pot of a match is what the requests of its two
\* players staked on it.
PotsFunded ==
    /\ pot + spent = SumFunctionOnSet(HeldFor, RelayedGames)
    /\ lent \/ spent # 0 => \E q \in executed : q.does = "forward"
    /\ volume = SumFunctionOnSet(PotOf, RelayedGames)
    /\ \A m \in RelayedGames :
        /\ escrow[m].pot = SumFunctionOnSet(WagerOf, StakesIn(m))
        /\ {q.from : q \in StakesIn(m)} = {escrow[m].player1, escrow[m].player2} \ {NoPlayer}
        /\ escrow[m].state \in {"active", "settled"} =>
             escrow[m].pot = 2 * escrow[m].wager /\ escrow[m].player1 # escrow[m].player2

RelayerSound == RelayerTypeOK /\ ExecutedOnce /\ PotsFunded
=============================================================================
