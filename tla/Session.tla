------------------------------- MODULE Session -------------------------------
(***************************************************************************)
(* The database session behind a request, for the registers whose handlers *)
(* load rows, decide, and commit later (database/session.py: READ          *)
(* COMMITTED, no row locks, expire_on_commit off).  A register says what   *)
(* its requests load and write; this module keeps the request in flight of *)
(* every request thread.                                                   *)
(***************************************************************************)
EXTENDS Naturals

CONSTANTS
    Workers,        \* request threads
    Reviewers,      \* users who pass the permission checks of the routes
    Nobody          \* NULL

ASSUME ReviewersAssumption == Nobody \notin Reviewers

VARIABLES
    req,            \* per worker: the request in flight
    raced           \* history: rows a request decided about that had changed since it loaded them

session == <<req, raced>>

Idle == [op |-> "idle"]

SessionInit == req = [w \in Workers |-> Idle] /\ raced = {}

\* Worker w takes a request.  Two of its fields are history: `reads`, the rows it
\* decides from, and `stale`, those of them changed by others since it loaded them.
Take(w, request) ==
    /\ req[w] = Idle
    /\ req' = [req EXCEPT ![w] = request]
    /\ UNCHANGED raced

\* Worker w goes on as `next` having loaded rows and committed nothing.
Continue(w, next) ==
    /\ req' = [req EXCEPT ![w] = next]
    /\ UNCHANGED raced

\* Worker w commits the rows `written`, having decided about `decided`, and goes on
\* as `next`.
Commit(w, decided, written, next) ==
    /\ raced' = raced \cup (decided \cap req[w].stale)
    /\ req' = [v \in Workers |->
                  IF v = w THEN next
                  ELSE IF req[v] = Idle THEN Idle
                  ELSE [req[v] EXCEPT !.stale = @ \cup (written \cap req[v].reads)]]

\* A request fails or its process dies before its next commit.
Die(w) ==
    /\ req[w] # Idle
    /\ req' = [req EXCEPT ![w] = Idle]
    /\ UNCHANGED raced

\* A session that loaded a row and made it `new` writes only the columns it
\* changed, over whatever the row says when it commits.
Changes(loaded, new) ==
    [c \in {d \in DOMAIN loaded : new[d] # loaded[d]} |-> new[c]]

Written(row, changes) ==
    [c \in DOMAIN row |-> IF c \in DOMAIN changes THEN changes[c] ELSE row[c]]
=============================================================================
