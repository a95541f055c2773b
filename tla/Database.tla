------------------------------ MODULE Database ------------------------------
(***************************************************************************)
(* The connection to MySQL of Database::getInstance() (database.cpp,       *)
(* DBTransaction in database.h) and the save of a player over it           *)
(* (IOLoginData::savePlayer), which is tried three times when the player   *)
(* leaves (Player::onRemoveCreature) and once when the game is saved.  The *)
(* dispatcher thread saves, and between two saves sends the statements of  *)
(* the game; the network thread asks over the same connection whether an   *)
(* address is banned (IOBan::isIpBanned).  The database thread has a       *)
(* connection of its own (DatabaseTasks::db).                              *)
(*                                                                         *)
(* databaseLock is recursive and executeQuery holds it from the query to   *)
(* its result, retries after a lost connection included: a statement is    *)
(* one action.  beginTransaction sends BEGIN before it takes the lock: a   *)
(* read of the network thread can come in between.  A transaction belongs  *)
(* to the connection: when that is lost, whoever notices, the server rolls *)
(* it back, and what is sent after the reconnection takes effect at once.  *)
(*                                                                         *)
(* What is stored of the player: its row and its items, each of the save   *)
(* that wrote it (Nothing once deleted); each statement of the game leaves *)
(* a note.  Bounds: the statements, MaxSaves, MaxFaults.                   *)
(***************************************************************************)
EXTENDS Naturals, FiniteSets

CONSTANTS
    Notes,          \* the statements of the game outside of a save
    MaxSaves,       \* how many times the player is saved
    MaxFaults       \* how many statements fail or lose their connection

ASSUME DatabaseAssumption == MaxSaves \in Nat /\ MaxFaults \in Nat

VARIABLES
    locked,         \* the dispatcher thread holds databaseLock between statements
    open,           \* a transaction is open on the connection
    stored,         \* what the server keeps if the connection ends now
    seen,           \* what the connection sees: stored, and its transaction
    at,             \* where the dispatcher thread is in savePlayer
    save,           \* the number of the save under way, or of the last
    tries,          \* how often it may still be tried
    whole,          \* the connection has not been lost since this BEGIN
    torn,           \* history: it was, in a save no later one has replaced
    kept,           \* history: the last whole save savePlayer said TRUE of
    answered,       \* history: the notes executeQuery said TRUE of
    exposed,        \* history: those sent while a transaction was open
    faults          \* history: failures and lost connections

serverVars == <<open, stored, seen>>
saveVars == <<at, save, tries>>
storyVars == <<whole, torn, kept, answered, exposed>>
databaseVars == <<locked, serverVars, saveVars, storyVars, faults>>

Nothing == 0

DatabaseInit ==
    /\ locked = FALSE
    /\ open = FALSE
    /\ stored = [row |-> Nothing, items |-> Nothing, notes |-> {}]
    /\ seen = stored
    /\ at = "idle" /\ save = 0 /\ tries = 0
    /\ whole = TRUE /\ torn = FALSE /\ kept = 0
    /\ answered = {} /\ exposed = {}
    /\ faults = 0

-----------------------------------------------------------------------------
(* The server and the connection.                                           *)

(* A statement that changes what the connection sees into new: kept at once *)
(* when no transaction is open.                                             *)
Executed(new) ==
    /\ seen' = new
    /\ stored' = IF open THEN stored ELSE new
    /\ UNCHANGED open

(* The same after a lost connection: the server has rolled back, and        *)
(* executeQuery sends the statement again over a new connection (60-69;     *)
(* MYSQL_OPT_RECONNECT, line 45).                                           *)
ExecutedAgain(new) ==
    /\ stored' = new
    /\ seen' = new
    /\ open' = FALSE

RolledBack ==
    /\ seen' = stored
    /\ UNCHANGED stored
    /\ open' = FALSE

Fault == faults < MaxFaults /\ faults' = faults + 1

-----------------------------------------------------------------------------
(* savePlayer, on the dispatcher thread.                                    *)

(* The player leaves, or the game is saved.                                 *)
Save ==
    /\ at = "idle"
    /\ save < MaxSaves
    /\ save' = save + 1
    /\ tries' \in {1, 3}
    /\ at' = "begin"
    /\ UNCHANGED <<locked, serverVars, storyVars, faults>>

(* savePlayer answers: FALSE is tried again while tries are left.           *)
AnswersFalse ==
    /\ tries' = tries - 1
    /\ at' = IF tries > 1 THEN "begin" ELSE "idle"
    /\ UNCHANGED save

AnswersTrue ==
    /\ tries' = 0
    /\ at' = "idle"
    /\ UNCHANGED save

(* The player's row cannot be read, or says that it is not to be saved: the *)
(* transaction is not begun.                                                *)
NoTransaction ==
    /\ at = "begin"
    /\ \/ Fault /\ AnswersFalse
       \/ UNCHANGED faults /\ AnswersTrue
    /\ UNCHANGED <<locked, serverVars, storyVars>>

(* DBTransaction::begin, executeQuery("BEGIN"): a transaction that a failed *)
(* commit left open is committed by it.                                     *)
Begin ==
    /\ at = "begin"
    /\ \/ /\ stored' = seen
          /\ UNCHANGED <<seen, faults>>
       \/ /\ Fault
          /\ seen' = stored
          /\ UNCHANGED stored
    /\ open' = TRUE
    /\ whole' = TRUE
    /\ at' = "gap"
    /\ UNCHANGED <<locked, save, tries, torn, kept, answered, exposed>>

(* BEGIN fails: state is STATE_START all the same, and the destructor rolls *)
(* back, and unlocks what it has not locked (without effect).               *)
BeginFails ==
    /\ at = "begin"
    /\ Fault
    /\ RolledBack
    /\ AnswersFalse
    /\ UNCHANGED <<locked, storyVars>>

(* databaseLock.lock(), after the answer to BEGIN.                          *)
TakeLock ==
    /\ at = "gap"
    /\ ~locked
    /\ locked' = TRUE
    /\ at' = "row"
    /\ UNCHANGED <<serverVars, save, tries, storyVars, faults>>

After == [row |-> "clear", clear |-> "items", items |-> "commit"]

(* UPDATE players; DELETE FROM player_items; INSERT INTO player_items (and  *)
(* the same for spells, depot and storage).                                 *)
Written ==
    CASE at = "row"   -> [seen EXCEPT !.row = save]
      [] at = "clear" -> [seen EXCEPT !.items = Nothing]
      [] at = "items" -> [seen EXCEPT !.items = save]

WrittenAgain ==
    CASE at = "row"   -> [stored EXCEPT !.row = save]
      [] at = "clear" -> [stored EXCEPT !.items = Nothing]
      [] at = "items" -> [stored EXCEPT !.items = save]

Statement ==
    /\ at \in DOMAIN After
    /\ at' = After[at]
    /\ \/ Executed(Written) /\ UNCHANGED <<faults, whole, torn>>
       \/ /\ Fault
          /\ ExecutedAgain(WrittenAgain)
          /\ whole' = FALSE
          /\ torn' = TRUE
    /\ UNCHANGED <<locked, save, tries, kept, answered, exposed>>

(* A bug it could have: the answer of executeQuery is not looked at.        *)
BadStatementFails ==
    /\ at \in DOMAIN After
    /\ Fault
    /\ at' = After[at]
    /\ UNCHANGED <<locked, serverVars, save, tries, storyVars>>

(* executeQuery says FALSE: savePlayer returns, and the destructor of its   *)
(* transaction rolls back and unlocks.                                      *)
StatementFails ==
    /\ at \in DOMAIN After
    /\ Fault
    /\ RolledBack
    /\ locked' = FALSE
    /\ AnswersFalse
    /\ UNCHANGED storyVars

Commit ==
    /\ at = "commit"
    /\ stored' = seen
    /\ open' = FALSE
    /\ locked' = FALSE
    /\ AnswersTrue
    /\ torn' = (torn /\ ~whole)
    /\ kept' = IF whole THEN save ELSE kept
    /\ UNCHANGED <<seen, whole, answered, exposed, faults>>

(* mysql_commit fails.  state is STATE_COMMIT by then: nobody rolls back.   *)
(* The transaction stays open, or is gone with the connection, before or    *)
(* after the server committed it.                                           *)
CommitFails ==
    /\ at = "commit"
    /\ Fault
    /\ locked' = FALSE
    /\ AnswersFalse
    /\ \/ UNCHANGED <<serverVars, torn>>
       \/ RolledBack /\ UNCHANGED torn
       \/ /\ stored' = seen
          /\ open' = FALSE
          /\ UNCHANGED seen
          /\ torn' = (torn /\ ~whole)
    /\ UNCHANGED <<whole, kept, answered, exposed>>

-----------------------------------------------------------------------------
(* executeQuery for something else than a save, on the dispatcher thread:   *)
(* VIP entries, owners of houses, guilds, the queries of scripts.  A failed *)
(* commit may have left its transaction open.                               *)
Execute(n) ==
    /\ at = "idle"
    /\ n \notin answered
    /\ answered' = answered \cup {n}
    /\ \/ /\ Executed([seen EXCEPT !.notes = @ \cup {n}])
          /\ exposed' = IF open THEN exposed \cup {n} ELSE exposed
          /\ UNCHANGED faults
       \/ /\ Fault
          /\ ExecutedAgain([stored EXCEPT !.notes = @ \cup {n}])
          /\ UNCHANGED exposed
    /\ UNCHANGED <<locked, saveVars, whole, torn, kept>>

(* IOBan::isIpBanned on the network thread, when the connection turns out   *)
(* to be lost: the read is repeated over a new one, the transaction that    *)
(* had been begun is gone.  Otherwise it changes nothing.                   *)
BanCheck ==
    /\ ~locked
    /\ Fault
    /\ RolledBack
    /\ whole' = (whole /\ at # "gap")
    /\ torn' = (torn \/ at = "gap")
    /\ UNCHANGED <<locked, saveVars, kept, answered, exposed>>

(* The server process dies and is started again.                            *)
Crash ==
    /\ Fault
    /\ at # "idle" \/ open
    /\ RolledBack
    /\ locked' = FALSE
    /\ at' = "idle"
    /\ tries' = 0
    /\ UNCHANGED <<save, storyVars>>

-----------------------------------------------------------------------------
DatabaseNext ==
    \/ Save \/ NoTransaction \/ Begin \/ BeginFails \/ TakeLock
    \/ Statement \/ StatementFails \/ Commit \/ CommitFails
    \/ \E n \in Notes : Execute(n)
    \/ BanCheck \/ Crash

DatabaseSpec == DatabaseInit /\ [][DatabaseNext]_databaseVars

-----------------------------------------------------------------------------
(* Where the dispatcher thread is inside of a locked transaction.           *)
Saving == {"row", "clear", "items", "commit"}

Contents == [row : Nat, items : Nat, notes : SUBSET Notes]

(* The types; a save is tried three times at most.                          *)
DatabaseTypeOK ==
    /\ locked \in BOOLEAN /\ open \in BOOLEAN
    /\ stored \in Contents /\ seen \in Contents
    /\ at \in {"idle", "begin", "gap", "row", "clear", "items", "commit"}
    /\ save \in Nat /\ tries \in 0 .. 3
    /\ whole \in BOOLEAN /\ torn \in BOOLEAN /\ kept \in Nat
    /\ answered \in SUBSET Notes /\ exposed \in SUBSET Notes
    /\ faults \in Nat

(* A player is stored as one save left it, row and items together, through  *)
(* failing statements, failing commits and crashes, unless a connection was *)
(* lost inside a transaction; a save savePlayer said TRUE of is not undone. *)
SavesAreWhole ==
    ~torn => stored.row = stored.items /\ stored.row >= kept

(* A statement outside of a save that executeQuery said TRUE of stays: no   *)
(* save that fails takes it back, unless a failed commit (DBTransaction,    *)
(* state is STATE_COMMIT before mysql_commit answers) had left a            *)
(* transaction open under it.  And between saves the lock is free.          *)
AnsweredIsKept ==
    /\ answered \ exposed \subseteq stored.notes
    /\ locked <=> at \in Saving

DatabaseSound == SavesAreWhole /\ AnsweredIsKept

(* What makes it so.  A whole save is in a transaction, and what it has     *)
(* written so far is in it; outside of one the connection sees what is      *)
(* stored, or one whole save more, which a failed commit has left open.     *)
TransactionInv ==
    /\ ~open => seen = stored
    /\ stored.notes \subseteq seen.notes
    /\ at \in Saving \cup {"gap"} => (whole => open) /\ (~whole => torn)
    /\ at \notin {"clear", "items", "commit"} /\ ~torn =>
         seen.row = seen.items /\ seen.row >= kept
    /\ kept <= save
    /\ at # "idle" => tries > 0
    /\ whole /\ at \in {"clear", "items", "commit"} => seen.row = save
    /\ whole /\ at = "commit" => seen.items = save

(* The inductive invariant.                                                 *)
DatabaseInv == DatabaseTypeOK /\ DatabaseSound /\ TransactionInv
=============================================================================
