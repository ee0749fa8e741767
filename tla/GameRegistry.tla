----------------------------- MODULE GameRegistry -----------------------------
(***************************************************************************)
(* Registers on the ledger and, at the end, the referral splitter and the  *)
(* AI NFTs.                                                                *)
(* The game registry (src/contracts/game_registry/contracts/game-          *)
(* registry/src/lib.rs): the results of games, written once by the server, *)
(* and tournaments with an entry fee.  The title badges                    *)
(* (src/contracts/title_badge/src/lib.rs). The model attestations          *)
(* (src/contracts/model_attestation/src/lib.rs). An error undoes the whole *)
(* call and is not a step.                                                 *)
(***************************************************************************)
EXTENDS Integers, FiniteSets, Functions

CONSTANTS
    Persons,        \* players, admins and submitters
    Purse,          \* tokens every person starts with
    GameIds,        \* identifiers of games; of tournaments there is one
    Capacities, EntryFees,
    Titles, Models, Hashes,
    Nothing         \* no entry under a key

ASSUME RegistryAssumption ==
    /\ IsFiniteSet(Persons)
    /\ Purse \in Nat /\ Capacities \subseteq Nat /\ EntryFees \subseteq Int
    /\ Nothing \notin [capacity : Capacities, fee : EntryFees, participants : Nat]

VARIABLES
    registryAdmin, registryPaused,
    recorded,       \* Game(id): who was recorded as the winner
    contest,        \* Tournament(id): capacity, fee, participants; or Nothing
    registered,     \* Registration(id, player)
    purse,          \* tokens
    collected,      \* history: fees each admin collected
    badge,          \* Badge(player): title and active; or Nothing
    titled,         \* history: grants and revocations of each player
    attested        \* Model(id): hash and submitter; or Nothing

registryVars == <<registryAdmin, registryPaused, recorded, contest, registered, purse, collected>>
badgeVars == <<badge, titled>>
registerVars == <<registryVars, badgeVars, attested>>

RegistryInit ==
    /\ registryAdmin \in Persons
    /\ registryPaused = FALSE
    /\ recorded = [g \in GameIds |-> Nothing]
    /\ contest = Nothing
    /\ registered = {}
    /\ purse = [p \in Persons |-> Purse]
    /\ collected = [p \in Persons |-> 0]
    /\ badge = [p \in Persons |-> Nothing]
    /\ titled = [p \in Persons |-> [granted |-> 0, revoked |-> 0]]
    /\ attested = [m \in Models |-> Nothing]

PauseRegistry ==
    /\ registryPaused' = ~registryPaused
    /\ UNCHANGED <<registryAdmin, recorded, contest, registered, purse, collected>>

SetRegistryAdmin(p) ==
    /\ ~registryPaused /\ p # registryAdmin
    /\ registryAdmin' = p
    /\ UNCHANGED <<registryPaused, recorded, contest, registered, purse, collected>>

\* The server names any winner; it is not asked whether he played.
RecordGame(g, winner) ==
    /\ ~registryPaused /\ recorded[g] = Nothing
    /\ recorded' = [recorded EXCEPT ![g] = winner]
    /\ UNCHANGED <<registryAdmin, registryPaused, contest, registered, purse, collected>>

CreateTournament(capacity, fee) ==
    /\ ~registryPaused /\ contest = Nothing
    /\ contest' = [capacity |-> capacity, fee |-> fee, participants |-> 0]
    /\ UNCHANGED <<registryAdmin, registryPaused, recorded, registered, purse, collected>>

MayEnter(p) == contest.participants < contest.capacity /\ p \notin registered

\* The fee goes to the admin of the moment, who may be the player.
Charged(p) ==
    IF contest.fee > 0
    THEN /\ purse[p] >= contest.fee
         /\ purse' = [q \in Persons |-> purse[q] - (IF q = p THEN contest.fee ELSE 0)
                                                 + (IF q = registryAdmin THEN contest.fee ELSE 0)]
         /\ collected' = [collected EXCEPT ![registryAdmin] = @ + contest.fee]
    ELSE UNCHANGED <<purse, collected>>

RegisterTournament(p) ==
    /\ ~registryPaused /\ contest # Nothing /\ MayEnter(p)
    /\ Charged(p)
    /\ contest' = [contest EXCEPT !.participants = @ + 1]
    /\ registered' = registered \cup {p}
    /\ UNCHANGED <<registryAdmin, registryPaused, recorded>>

RegistryNext ==
    \/ PauseRegistry
    \/ \E p \in Persons : SetRegistryAdmin(p) \/ RegisterTournament(p)
    \/ \E p \in Persons, g \in GameIds : RecordGame(g, p)
    \/ \E n \in Capacities, fee \in EntryFees : CreateTournament(n, fee)

\* A grant replaces the title there was, revoked or not; a revocation keeps the record.
Grant(p, title) ==
    /\ titled[p].granted < 2  \* bound
    /\ badge' = [badge EXCEPT ![p] = [title |-> title, active |-> TRUE]]
    /\ titled' = [titled EXCEPT ![p].granted = @ + 1]

HoldsTitle(p) == badge[p] # Nothing /\ badge[p].active

Revoke(p) ==
    /\ HoldsTitle(p)
    /\ badge' = [badge EXCEPT ![p].active = FALSE]
    /\ titled' = [titled EXCEPT ![p].revoked = @ + 1]

BadgeNext ==
    \/ \E p \in Persons, t \in Titles : Grant(p, t)
    \/ \E p \in Persons : Revoke(p)

Attest(p, model, hash) ==
    /\ attested[model] = Nothing
    /\ attested' = [attested EXCEPT ![model] = [hash |-> hash, submittedBy |-> p]]

AttestNext == \E p \in Persons, model \in Models, hash \in Hashes : Attest(p, model, hash)

RegistersNext ==
    \/ RegistryNext /\ UNCHANGED <<badgeVars, attested>>
    \/ BadgeNext /\ UNCHANGED <<registryVars, attested>>
    \/ AttestNext /\ UNCHANGED <<registryVars, badgeVars>>

RegistersSpec == RegistryInit /\ [][RegistersNext]_registerVars

(***************************************************************************)
(* Conditions that hold                                                    *)
(***************************************************************************)
\* The participants of the tournament are counted and fit; each paid the fee once, to
\* whoever was admin then, and no token appeared or vanished.  A title that is held was
\* granted more often than revoked.
RegistrySound ==
    /\ contest # Nothing =>
        /\ contest.participants = Cardinality(registered) /\ contest.participants <= contest.capacity
        /\ SumFunctionOnSet(collected, Persons)
            = (IF contest.fee > 0 THEN contest.fee * contest.participants ELSE 0)
        /\ \A p \in Persons :
            purse[p] = Purse + collected[p]
                        - (IF p \in registered /\ contest.fee > 0 THEN contest.fee ELSE 0)
    /\ \A p \in Persons :
        /\ titled[p].revoked <= titled[p].granted
        /\ HoldsTitle(p) => titled[p].revoked < titled[p].granted
-----------------------------------------------------------------------------
(***************************************************************************)
(* The referral splitter (src/contracts/referral_splitter/src/lib.rs): a   *)
(* player names a referrer once; every wager that is settled for the       *)
(* player credits the referrer with a commission, and the referrer draws   *)
(* the whole credit in a token of his choice.  Settling only keeps books:  *)
(* the tokens come from elsewhere, and a transfer that the contract cannot *)
(* cover undoes the withdrawal.                                            *)
(***************************************************************************)
CONSTANTS
    Referees,       \* addresses that play and refer
    NoReferrer,
    CommissionBps,
    WagerSizes,     \* amounts of wagers
    Coins,          \* tokens
    MaxCredit       \* bound of the model: commissions ever credited

ASSUME ReferralAssumption ==
    /\ IsFiniteSet(Referees) /\ IsFiniteSet(Coins)
    /\ NoReferrer \notin Referees
    /\ CommissionBps \in 0..10000
    /\ WagerSizes \subseteq Nat /\ MaxCredit \in Nat

VARIABLES
    referrer,   \* Referrer(referee)
    earnings,   \* Earnings(referrer)
    funds,      \* tokens of the contract
    paidOut,    \* history: withdrawn, by referrer and token
    commissions \* history: credited for the wagers of each referee

referralVars == <<referrer, earnings, funds, paidOut, commissions>>

ReferralInit ==
    /\ referrer = [r \in Referees |-> NoReferrer]
    /\ earnings = [r \in Referees |-> 0]
    /\ funds = [c \in Coins |-> 0]
    /\ paidOut = [r \in Referees |-> [c \in Coins |-> 0]]
    /\ commissions = [r \in Referees |-> 0]

MayRegister(referee, by) == by # referee /\ referrer[referee] = NoReferrer

RegisterReferral(referee, by) ==
    /\ MayRegister(referee, by)
    /\ referrer' = [referrer EXCEPT ![referee] = by]
    /\ UNCHANGED <<earnings, funds, paidOut, commissions>>

\* The commission is cut off below; a wager of a player nobody referred changes nothing.
Cut(amount) == (amount * CommissionBps) \div 10000

SettleWager(referee, amount) ==
    LET by == referrer[referee]
        cut == Cut(amount)
    IN
    /\ amount > 0 /\ by # NoReferrer /\ cut > 0
    /\ SumFunctionOnSet(commissions, Referees) + cut <= MaxCredit  \* bound
    /\ earnings' = [earnings EXCEPT ![by] = @ + cut]
    /\ commissions' = [commissions EXCEPT ![referee] = @ + cut]
    /\ UNCHANGED <<referrer, funds, paidOut>>

\* Mutant: the credit is paid and stays.
BadLeftAfterWithdrawal(by) == earnings[by]

\* The whole credit at once: never a part of it.
LeftAfterWithdrawal(by) == 0

WithdrawEarnings(by, coin) ==
    /\ earnings[by] > 0 /\ funds[coin] >= earnings[by]
    /\ earnings' = [earnings EXCEPT ![by] = LeftAfterWithdrawal(by)]
    /\ funds' = [funds EXCEPT ![coin] = @ - earnings[by]]
    /\ paidOut' = [paidOut EXCEPT ![by][coin] = @ + earnings[by]]
    /\ UNCHANGED <<referrer, commissions>>

\* Somebody pays tokens in.
FundSplitter(coin) ==
    /\ funds[coin] < MaxCredit
    /\ funds' = [funds EXCEPT ![coin] = @ + 1]
    /\ UNCHANGED <<referrer, earnings, paidOut, commissions>>

ReferralNext ==
    \/ \E r, by \in Referees : RegisterReferral(r, by)
    \/ \E r \in Referees, a \in WagerSizes : SettleWager(r, a)
    \/ \E r \in Referees, c \in Coins : WithdrawEarnings(r, c)
    \/ \E c \in Coins : FundSplitter(c)

ReferralSpec == ReferralInit /\ [][ReferralNext]_referralVars

\* A binding is for good: what a referrer was credited, drawn or not, is what the wagers
\* of the players bound to him yielded, and of the others nothing was cut.
ReferralsSound ==
    /\ \A by \in Referees :
        earnings[by] + SumFunctionOnSet(paidOut[by], Coins)
            = SumFunctionOnSet(commissions, {r \in Referees : referrer[r] = by})
    /\ \A r \in Referees : referrer[r] # r /\ (referrer[r] = NoReferrer => commissions[r] = 0)
-----------------------------------------------------------------------------
(***************************************************************************)
(* The AI NFT contract (src/contracts/ai_nft/src/lib.rs): NFTs are minted  *)
(* under the next number of a counter, handed on, described anew and       *)
(* burned.  The counter is also the supply that burn lowers, so the next   *)
(* mint may give a number out again, that of a burned NFT and even that of *)
(* one that still lives and is replaced, although a comment (313-315) says *)
(* that numbers are not reused.  The maps of owners, metadata and minters  *)
(* are separate entries that every call has to keep together.  An error    *)
(* undoes the whole call and is not a step.                                *)
(***************************************************************************)

CONSTANTS
    Collectors,     \* addresses that mint and own
    MaxMints        \* bound of the model: calls of mint

ASSUME NftAssumption == MaxMints \in Nat

VARIABLES
    nftPaused,      \* PAUSED
    nftCounter,     \* NFT_COUNTER: the last number given out, and the supply
    nftOwners,      \* NFT_OWNERS
    nftMetadata,    \* NFT_METADATA: owner, minter, and the hash named by its version
    minterRegistry, \* MINTER_REGISTRY
    metadataVersion,\* METADATA_VERSION, one count for all NFTs
    mints, burns    \* history: calls of mint and of burn

nftVars == <<nftPaused, nftCounter, nftOwners, nftMetadata, minterRegistry,
             metadataVersion, mints, burns>>

Ids == 1..MaxMints

\* A map that also holds x under i, and one without i.
With(map, i, x) == [j \in DOMAIN map \cup {i} |-> IF j = i THEN x ELSE map[j]]

Without(map, i) == [j \in DOMAIN map \ {i} |-> map[j]]

Minted == DOMAIN nftOwners

NftInit ==
    /\ nftPaused = FALSE
    /\ nftCounter = 0
    /\ nftOwners = <<>> /\ nftMetadata = <<>> /\ minterRegistry = <<>>
    /\ metadataVersion = 0
    /\ mints = 0 /\ burns = 0

PauseNfts ==
    /\ nftPaused' = ~nftPaused
    /\ UNCHANGED <<nftCounter, nftOwners, nftMetadata, minterRegistry, metadataVersion,
                   mints, burns>>

Mint(minter) ==
    LET id == nftCounter + 1
    IN
    /\ ~nftPaused /\ mints < MaxMints
    /\ nftCounter' = id
    /\ nftOwners' = With(nftOwners, id, minter)
    /\ nftMetadata' = With(nftMetadata, id, [owner |-> minter, minter |-> minter, version |-> 0])
    /\ minterRegistry' = With(minterRegistry, id, minter)
    /\ mints' = mints + 1
    /\ UNCHANGED <<nftPaused, metadataVersion, burns>>

Transfer(id, to) ==
    /\ ~nftPaused /\ id \in Minted
    /\ nftOwners' = [nftOwners EXCEPT ![id] = to]
    /\ nftMetadata' = [nftMetadata EXCEPT ![id].owner = to]
    /\ UNCHANGED <<nftPaused, nftCounter, minterRegistry, metadataVersion, mints, burns>>

UpdateMetadata(caller, id) ==
    /\ ~nftPaused /\ id \in DOMAIN nftMetadata
    /\ caller \in {nftMetadata[id].owner, nftMetadata[id].minter}
    /\ metadataVersion < MaxMints  \* bound
    /\ metadataVersion' = metadataVersion + 1
    /\ nftMetadata' = [nftMetadata EXCEPT ![id].version = metadataVersion']
    /\ UNCHANGED <<nftPaused, nftCounter, nftOwners, minterRegistry, mints, burns>>

SupplyAfterBurn == IF nftCounter > 0 THEN nftCounter - 1 ELSE 0

Burn(owner, id) ==
    /\ ~nftPaused /\ id \in Minted /\ nftOwners[id] = owner
    /\ nftOwners' = Without(nftOwners, id)
    /\ nftMetadata' = Without(nftMetadata, id)
    /\ minterRegistry' = Without(minterRegistry, id)
    /\ nftCounter' = SupplyAfterBurn
    /\ burns' = burns + 1
    /\ UNCHANGED <<nftPaused, metadataVersion, mints>>

NftNext ==
    \/ PauseNfts
    \/ \E c \in Collectors, id \in Ids : Burn(c, id) \/ UpdateMetadata(c, id) \/ Transfer(id, c)
    \/ \E c \in Collectors : Mint(c)

NftSpec == NftInit /\ [][NftNext]_nftVars

(***************************************************************************)
(* Conditions that hold                                                    *)
(***************************************************************************)
\* The three maps speak of the same NFTs and name the same owner and minter, over mints
\* that replace living NFTs too; the total supply is the mints less the burns, and there
\* are never more NFTs than that.  There can be fewer: each replaced NFT still counts.
NftSound ==
    /\ DOMAIN nftMetadata = Minted /\ DOMAIN minterRegistry = Minted
    /\ \A id \in Minted :
        /\ nftMetadata[id].owner = nftOwners[id]
        /\ nftMetadata[id].minter = minterRegistry[id]
        /\ nftMetadata[id].version <= metadataVersion
    /\ nftCounter = mints - burns /\ Cardinality(Minted) <= nftCounter

\* The small contracts keep their books: the conditions on all of them.
RegistersSound == NftSound /\ ReferralsSound /\ RegistrySound
=============================================================================
