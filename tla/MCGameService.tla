--------------------------- MODULE MCGameService ---------------------------
\* The database of the backend for TLC: game rows and ratings, a player's tokens and
\* tickets, linked wallets, player rows, and the list of games.  The modules share no
\* variable: a behaviour picks one part and the others stay as they are.
EXTENDS GameService, Accounts, PlayerRows, GameListing, TLC

CONSTANTS a, b, g1, g2, r1, r2

Symmetry == Permutations(Players) \cup Permutations(Games) \cup Permutations(Requests)

AllOps == {"make_move", "join_game", "abandon_game", "complete_game"}

\* A player with two wallets, one of which another player's key can sign for too.
MCKeys == ("p" :> {"v", "w"} @@ "q" :> {"w"})

\* Everything, the games of a player, those of a status, and both.
MCFilters ==
    {[mine |-> FALSE, status |-> "any"], [mine |-> TRUE, status |-> "any"],
     [mine |-> FALSE, status |-> "in_progress"], [mine |-> TRUE, status |-> "completed"]}

VARIABLE component

allVars == <<vars, accountVars, walletVars, playerVars, listingVars, component>>

DatabaseInit ==
    /\ Init /\ AccountsInit /\ WalletInit /\ PlayersInit
    /\ ListingInit
    /\ component \in {"games", "tokens", "tickets", "wallets", "players", "listing"}
    /\ component # "listing" => \A r \in Rows : listed[r] = Absent

Playing ==
    /\ component = "games" /\ Next
    /\ UNCHANGED <<accountVars, walletVars, playerVars, listingVars, component>>

SigningIn ==
    /\ \/ component = "tokens" /\ TokensNext
       \/ component = "tickets" /\ (TicketsNext \/ \E c \in Devices : SignsInAndOut(c))
    /\ UNCHANGED <<vars, walletVars, playerVars, listingVars, component>>

Linking ==
    /\ component = "wallets" /\ WalletNext
    /\ UNCHANGED <<vars, accountVars, playerVars, listingVars, component>>

EditingProfiles ==
    /\ component = "players" /\ PlayersNext
    /\ UNCHANGED <<vars, accountVars, walletVars, listingVars, component>>

Browsing ==
    /\ component = "listing" /\ ListingNext
    /\ UNCHANGED <<vars, accountVars, walletVars, playerVars, component>>

DatabaseNext == Playing \/ SigningIn \/ Linking \/ EditingProfiles \/ Browsing

DatabaseSpec == DatabaseInit /\ [][DatabaseNext]_allVars

\* Tokens, wallets and player rows stay their owner's, and a list of games neither repeats
\* nor skips one: the conditions of Accounts, PlayerRows and GameListing.
AccountsSound ==
    TokensSound /\ WalletsSound /\ PlayersSound /\ (component = "listing" => ListingSound)
=============================================================================
