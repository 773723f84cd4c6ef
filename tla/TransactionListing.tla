------------------------- MODULE TransactionListing -------------------------
(***************************************************************************)
(* GET /v1/wallets/:walletId/transactions: a client walks the pages of one *)
(* wallet, newest first, while imports add rows (packages/infrastructure/  *)
(* src/db/repositories/transaction.repository.ts, list-transactions.use-   *)
(* case.ts and packages/api/src/http/cursor.ts).                           *)
(*                                                                         *)
(* A row is its key, <<occurred_at, external_id>>.  A cursor is a key: the *)
(* token of cursor.ts loses nothing of it, since an instant of a source    *)
(* has the precision of a Date and a stored external id is trimmed.  The   *)
(* two statements of a page read two snapshots of what is committed.       *)
(***************************************************************************)
EXTENDS Integers, FiniteSets

CONSTANTS Keys,         \* the keys rows may have
          Batches,      \* the chunks imports save
          Savers,       \* connections that save chunks
          Limits,       \* page sizes clients ask for
          MaxLimit,     \* 200
          NoCursor

ASSUME ListingAssumption ==
  /\ Keys \subseteq Int \X Int
  /\ Batches \subseteq SUBSET Keys
  /\ \A batch \in Batches : IsFiniteSet(batch)
  /\ MaxLimit \in Nat
  /\ Limits \subseteq 1 .. MaxLimit
  /\ NoCursor \notin Keys

VARIABLES committed,    \* the rows of the wallet
          withLegs,     \* those whose legs are there
          inserted,     \* rows of a saver's open transaction
          legged,       \* rows it has written the legs of
          open,         \* whether it has one
          stage,        \* where the request for a page is
          cursor,       \* what the client sends with its next request
          limit,        \* and how many rows it asks for
          fetched,      \* the rows the first statement returned
          served,       \* the rows the client has been given, walking
          bare,         \* those of them it got without their legs
          present,      \* the rows there were when it was first answered
          ended         \* whether it has been told that there is no more

tableVars == <<committed, withLegs, inserted, legged, open>>
walkVars  == <<stage, cursor, limit, fetched, served, bare, present, ended>>
vars      == <<tableVars, walkVars>>

TypeOK ==
  /\ committed \in SUBSET Keys /\ IsFiniteSet(committed)
  /\ withLegs \in SUBSET Keys
  /\ inserted \in [Savers -> SUBSET Keys]
  /\ \A s \in Savers : IsFiniteSet(inserted[s])
  /\ legged \in [Savers -> SUBSET Keys]
  /\ open \in [Savers -> BOOLEAN]
  /\ stage \in {"client", "entries"}
  /\ cursor \in Keys \cup {NoCursor}
  /\ limit \in Nat
  /\ fetched \in SUBSET Keys
  /\ served \in SUBSET Keys
  /\ bare \in SUBSET Keys
  /\ present \in SUBSET Keys
  /\ ended \in BOOLEAN

Init ==
  /\ committed = {} /\ withLegs = {}
  /\ inserted = [s \in Savers |-> {}]
  /\ legged = [s \in Savers |-> {}]
  /\ open = [s \in Savers |-> FALSE]
  /\ stage = "client" /\ cursor = NoCursor /\ limit = 0 /\ fetched = {}
  /\ served = {} /\ bare = {} /\ present = {} /\ ended = FALSE

-----------------------------------------------------------------------------
(* saveBatch: transactions, then legs, in one database transaction.        *)

InsertRowsAtOnce(s) ==
  /\ ~open[s]
  /\ \E batch \in Batches :
       /\ inserted' = [inserted EXCEPT ![s] = batch \ committed]
       /\ committed' = committed \cup batch
  /\ open' = [open EXCEPT ![s] = TRUE]
  /\ UNCHANGED <<withLegs, legged, walkVars>>

(* on conflict do nothing, after waiting for whoever inserts the same row; *)
(* two that wait for one another are one Rollback.                         *)
InsertRows(s) ==
  /\ ~open[s]
  /\ \E batch \in Batches :
       /\ \A other \in Savers \ {s} : inserted[other] \cap batch = {}
       /\ inserted' = [inserted EXCEPT ![s] = batch \ committed]
  /\ open' = [open EXCEPT ![s] = TRUE]
  /\ UNCHANGED <<committed, withLegs, legged, walkVars>>

InsertLegs(s) ==
  /\ open[s]
  /\ legged' = [legged EXCEPT ![s] = inserted[s]]
  /\ UNCHANGED <<committed, withLegs, inserted, open, walkVars>>

Close(s) ==
  /\ inserted' = [inserted EXCEPT ![s] = {}]
  /\ legged' = [legged EXCEPT ![s] = {}]
  /\ open' = [open EXCEPT ![s] = FALSE]

Commit(s) ==
  /\ open[s]
  /\ legged[s] = inserted[s]
  /\ committed' = committed \cup inserted[s]
  /\ withLegs' = withLegs \cup legged[s]
  /\ Close(s)
  /\ UNCHANGED walkVars

Rollback(s) ==
  /\ open[s]
  /\ Close(s)
  /\ UNCHANGED <<committed, withLegs, walkVars>>

-----------------------------------------------------------------------------
(* listByWallet.                                                           *)

(* Row comparison, (occurred_at, external_id) < (occurred_at, external_id) *)
Below(k, l) == k[1] < l[1] \/ (k[1] = l[1] /\ k[2] < l[2])

CandidatesByInstant == {k \in committed : cursor = NoCursor \/ k[1] < cursor[1]}

CandidatesFromCursor == {k \in committed : cursor = NoCursor \/ ~Below(cursor, k)}

Candidates == {k \in committed : cursor = NoCursor \/ Below(k, cursor)}

(* order by ... desc limit n                                               *)
IsTop(rows, n, from) ==
  /\ rows \subseteq from
  /\ \A r \in rows, other \in from \ rows : Below(other, r)
  /\ \/ rows = from /\ Cardinality(rows) <= n
     \/ Cardinality(rows) = n

(* One extra row is the cheapest way to know whether another page exists.  *)
ReadRows ==
  /\ stage = "client" /\ ~ended
  /\ \E n \in Limits :
       /\ limit' = n
       /\ \E rows \in SUBSET Candidates :
            /\ rows # {}
            /\ IsTop(rows, n + 1, Candidates)
            /\ fetched' = rows
  /\ stage' = "entries"
  /\ present' = IF cursor = NoCursor THEN committed ELSE present
  /\ UNCHANGED <<tableVars, cursor, served, bare, ended>>

(* A page without rows is answered at once, with no cursor.                *)
ReadNothing ==
  /\ stage = "client" /\ ~ended
  /\ Candidates = {}
  /\ present' = IF cursor = NoCursor THEN committed ELSE present
  /\ ended' = TRUE
  /\ UNCHANGED <<tableVars, stage, cursor, limit, fetched, served, bare>>

CursorOfInstant(row) == <<row[1], 0>>

(* What the token carries: the instant and the external id of a row.       *)
CursorOf(row) == <<row[1], row[2]>>

MoreRowsWhenFull == Cardinality(fetched) >= limit

MoreRows == Cardinality(fetched) > limit

(* The cursor of the next page is the last row of this one.                *)
NextCursor(page) ==
  \E last \in page :
    /\ \A other \in page \ {last} : Below(last, other)
    /\ cursor' = CursorOf(last)

ReadEntries ==
  /\ stage = "entries"
  /\ \E page \in SUBSET fetched :
       /\ IsTop(page, limit, fetched)
       /\ served' = served \cup page
       /\ bare' = bare \cup (page \ withLegs)
       /\ \/ MoreRows /\ NextCursor(page) /\ UNCHANGED ended
          \/ ~MoreRows /\ ended' = TRUE /\ UNCHANGED cursor
  /\ stage' = "client" /\ limit' = 0 /\ fetched' = {}
  /\ UNCHANGED <<tableVars, present>>

(* The request fails, or its answer is lost: the client asks again, with   *)
(* the cursor it has.                                                      *)
LoseAnswer ==
  /\ stage = "entries"
  /\ stage' = "client" /\ limit' = 0 /\ fetched' = {}
  /\ UNCHANGED <<tableVars, cursor, served, bare, present, ended>>

(* The client walks again from the newest row.                             *)
StartOver ==
  /\ stage = "client"
  /\ cursor' = NoCursor /\ served' = {} /\ bare' = {} /\ present' = {} /\ ended' = FALSE
  /\ UNCHANGED <<tableVars, stage, limit, fetched>>

Next ==
  \/ \E s \in Savers : InsertRows(s) \/ InsertLegs(s) \/ Commit(s) \/ Rollback(s)
  \/ ReadRows
  \/ ReadNothing
  \/ ReadEntries
  \/ LoseAnswer
  \/ StartOver

Spec == Init /\ [][Next]_vars

-----------------------------------------------------------------------------
(* No row is given twice in a walk, and pages descend: whatever was given  *)
(* is newer than whatever is about to be (FR-10).                          *)
PagesDescend == \A given \in served, row \in fetched : Below(row, given)

(* A walk that has ended has given every row that was there when it began, *)
(* however many rows imports added meanwhile (listByWallet: "offset        *)
(* pagination would drift as new imports land").                           *)
WalkIsComplete == ended => present \subseteq served

(* A transaction is never shown without its legs, although the two         *)
(* statements of a page do not share a snapshot (saveBatch).               *)
LegsComeAlong == bare = {}

(* A cursor is only given when there is something to find with it.         *)
CursorLeadsOn ==
  cursor # NoCursor /\ ~ended => \E row \in committed : Below(row, cursor)

=============================================================================
