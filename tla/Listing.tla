------------------------------- MODULE Listing ------------------------------
(***************************************************************************)
(* The two paged listings, products of the catalog and a customer's        *)
(* bookings, newest first: a client walks from page to page with the       *)
(* cursor of each page, while rows appear and, as bookings change their    *)
(* status, no longer match its filter.                                     *)
(*                                                                         *)
(* Rows are numbered in the order of their ids.  They become visible in    *)
(* any order: created_at is the start of a transaction, not its commit.    *)
(***************************************************************************)
EXTENDS Integers, Sequences, FiniteSets

CONSTANTS
  Rows,            \* ids
  CreatedAt,       \* their created_at
  Limits,          \* limit parameters a client may send
  Absent,          \* no limit was sent
  NotANumber,      \* the limit is not an integer
  DefaultLimit, MaxLimit,
  Top,             \* no cursor yet
  End,             \* next_cursor is null
  MaxMistakes      \* bound: cursors no page ever had

ASSUME ListingAssumption ==
  /\ Rows \subseteq Nat /\ IsFiniteSet(Rows)
  /\ CreatedAt \in [Rows -> Nat]
  /\ Limits \subseteq Int
  /\ MaxLimit \in Nat \ {0}
  /\ DefaultLimit \in 1 .. MaxLimit
  /\ MaxMistakes \in Nat
  /\ Absent \notin Int /\ NotANumber \notin Int /\ Absent # NotANumber
  /\ Top \notin Rows /\ End \notin Rows /\ Top # End

VARIABLES
  api,        \* which listing: "catalog" or "booking"
  shown,      \* rows that are there and match the filter
  cursor,     \* next_cursor of the last page
  got,        \* the rows the walk has returned, in order
  steady,     \* history: rows that matched ever since the walk began
  mistakes

listingVars == <<api, shown, cursor, got, steady, mistakes>>

-----------------------------------------------------------------------------
LimitParams == Limits \cup {Absent, NotANumber}

ListingInit ==
  /\ api \in {"catalog", "booking"}
  /\ shown \in SUBSET Rows
  /\ cursor = Top
  /\ got = <<>>
  /\ steady = {}
  /\ mistakes = 0

\* (created_at, id) < (created_at, id).
Older(a, b) ==
  CreatedAt[a] < CreatedAt[b] \/ (CreatedAt[a] = CreatedAt[b] /\ a < b)

-----------------------------------------------------------------------------
(* Parameters. *)

\* The generated wrapper binds limit as an integer.
ProductsBound(l) == l # NotANumber
BookingsBound(l) == l # NotANumber

\* The catalog's handler rejects what its contract forbids; its service clamps
\* what is left.
ProductsAccepted(l) == l = Absent \/ l \in 1 .. MaxLimit
ProductsLimit(l) ==
  CASE l = Absent -> DefaultLimit [] l < 1 -> DefaultLimit
    [] l > MaxLimit -> MaxLimit [] OTHER -> l

\* The bookings have no upper bound.
BookingsDefault(l) == IF l = Absent THEN DefaultLimit ELSE l
BookingsLimit(l) == IF l <= 0 THEN DefaultLimit ELSE l

Answered(l) ==
  IF api = "catalog" THEN ProductsBound(l) /\ ProductsAccepted(l)
  ELSE BookingsBound(l)

Limit(l) ==
  IF api = "catalog" THEN ProductsLimit(l) ELSE BookingsLimit(BookingsDefault(l))

-----------------------------------------------------------------------------
(* One query. *)

\* ORDER BY created_at DESC, id DESC LIMIT n.
Newest(S, n) == {r \in S : Cardinality({q \in S \ {r} : ~Older(q, r)}) < n}

\* The rows after the boundary.
After(c) == IF c = Top THEN shown ELSE {r \in shown : Older(r, c)}

Oldest(S) == CHOOSE r \in S : \A q \in S \ {r} : ~Older(q, r)

\* Mutant: the cursor is the row that was dropped.
PageFromLookahead(c, n) ==
  LET found == Newest(After(c), n + 1)
  IN [rows |-> Newest(found, n),
      next |-> IF Cardinality(found) <= n THEN End ELSE Oldest(found)]

\* A page is asked for with one row more than it holds.  If that row is there,
\* it is dropped, and the last row kept is the next cursor.
Page(c, n) ==
  LET found == Newest(After(c), n + 1)
      kept == Newest(found, n)
  IN [rows |-> kept,
      next |-> IF Cardinality(found) <= n THEN End ELSE Oldest(kept)]

\* The rows of a page, newest first.
InOrder(S) ==
  CHOOSE s \in [1 .. Cardinality(S) -> S] :
    \A i, j \in 1 .. Cardinality(S) : i < j => Older(s[j], s[i])

-----------------------------------------------------------------------------
(* Rows. *)

\* A transaction that inserted the row commits, or a booking takes on the
\* status that is asked for.
Appear(r) ==
  /\ r \notin shown
  /\ shown' = shown \cup {r}
  /\ UNCHANGED <<api, cursor, got, steady, mistakes>>

\* A booking changes its status.  Products are only ever inserted.
Disappear(r) ==
  /\ api = "booking"
  /\ r \in shown
  /\ shown' = shown \ {r}
  /\ steady' = steady \ {r}
  /\ UNCHANGED <<api, cursor, got, mistakes>>

(* The walk. *)

FromTop(n) ==
  LET page == Page(Top, n) IN
  /\ cursor' = page.next
  /\ got' = InOrder(page.rows)
  /\ steady' = shown

FromCursor(n) ==
  LET page == Page(cursor, n) IN
  /\ cursor' = page.next
  /\ got' = got \o InOrder(page.rows)
  /\ UNCHANGED steady

Fetch(l) ==
  /\ cursor # End
  /\ Answered(l)
  /\ IF cursor = Top
     THEN FromTop(Limit(l))
     ELSE FromCursor(Limit(l))
  /\ UNCHANGED <<api, shown, mistakes>>

\* 400: a parameter that does not bind or is out of range.
FetchRejected(l) ==
  /\ cursor # End
  /\ ~Answered(l)
  /\ UNCHANGED listingVars

\* A cursor that does not decode: the catalog answers 400, while the bookings
\* are listed from the top, so that the walk begins again.
FetchMalformed(l) ==
  /\ cursor # End
  /\ Answered(l)
  /\ mistakes < MaxMistakes
  /\ mistakes' = mistakes + 1
  /\ IF api = "catalog" THEN UNCHANGED <<cursor, got, steady>>
     ELSE FromTop(Limit(l))
  /\ UNCHANGED <<api, shown>>

-----------------------------------------------------------------------------
(* Properties. *)

ListingTypeOK ==
  /\ api \in {"catalog", "booking"}
  /\ shown \subseteq Rows
  /\ cursor \in Rows \cup {Top, End}
  /\ got \in Seq(Rows)
  /\ steady \subseteq shown
  /\ mistakes \in 0 .. MaxMistakes

\* A walk returns rows newest first and each only once, and one that came to
\* its end has left out no row that was there, and matched, all the time:
\* whatever is inserted and changed between its pages, and ties in created_at
\* included.
WalkIsExact ==
  /\ \A i, j \in 1 .. Len(got) :
       i < j => /\ CreatedAt[got[j]] <= CreatedAt[got[i]]
                /\ CreatedAt[got[j]] = CreatedAt[got[i]] => got[j] < got[i]
  /\ cursor = End => \A r \in steady : \E i \in 1 .. Len(got) : got[i] = r

=============================================================================
