------------------------------ MODULE Journey -------------------------------
(***************************************************************************)
(* A customer at the edge: the gateway in front of the two listings and of *)
(* the calls a booking makes.                                              *)
(*                                                                         *)
(* An errand is to walk through a listing, page by page and past the rate  *)
(* limiter, while other callers use the gateway too, or to make a booking: *)
(* one admitted request, and the calls it sets off.                        *)
(***************************************************************************)
EXTENDS Gateway, Listing, Exchange

CONSTANTS
  Customer,      \* whose errand it is
  OtherRequests  \* what other callers send meanwhile

ASSUME JourneyAssumption ==
  /\ Customer \in Subjects
  /\ OtherRequests \subseteq {r \in Requests : r.token # Customer}

VARIABLE errand    \* "browse" or "hold"

vars == <<limiterVars, listingVars, exchangeVars, errand>>

-----------------------------------------------------------------------------
Init ==
  /\ errand \in {"browse", "hold"}
  /\ LimiterInit
  /\ ListingInit
  /\ ExchangeInit
  \* The state of the errand that is not run does not matter.
  /\ errand = "browse" => key = "none" /\ ~taken
  /\ errand = "hold" => api = "booking" /\ shown = {}

\* The customer's requests carry a valid token.
RequestsFor(route) == [route : {route}, from : Addresses, token : {Customer}]

\* Where each listing is served.
ListingRoute == IF api = "catalog" THEN "products" ELSE "bookings"
PageRequests == RequestsFor(ListingRoute)

-----------------------------------------------------------------------------
(* Browsing. *)

\* The upstream answers with a page: the route leads to the listing's service.
PageAnswered(r) ==
  /\ Admitted(r)
  /\ Upstream(r) = api
  /\ \E l \in LimitParams : Fetch(l)
  /\ UNCHANGED <<exchangeVars, errand>>

\* It rejects a parameter, or does not understand it.
PageMistaken(r) ==
  /\ Admitted(r)
  /\ Upstream(r) = api
  /\ \E l \in LimitParams : FetchRejected(l) \/ FetchMalformed(l)
  /\ UNCHANGED <<exchangeVars, errand>>

\* 502: the proxy does not reach its upstream, and the token is spent.
PageUnreachable(r) ==
  /\ Admitted(r)
  /\ UNCHANGED <<listingVars, exchangeVars, errand>>

\* 429: the client asks again later.
PageLimited(r) ==
  /\ Limited(r)
  /\ UNCHANGED <<listingVars, exchangeVars, errand>>

OthersAsk ==
  /\ \E r \in OtherRequests : Handle(r)
  /\ UNCHANGED <<listingVars, exchangeVars, errand>>

TimePasses ==
  /\ Tick
  /\ UNCHANGED <<listingVars, exchangeVars, errand>>

RowsChange ==
  /\ \E r \in Rows : Appear(r) \/ Disappear(r)
  /\ UNCHANGED <<limiterVars, exchangeVars, errand>>

AnyPageAnswered == \E r \in PageRequests : PageAnswered(r)

Browsing == errand = "browse" /\ cursor # End

Browse ==
  /\ Browsing
  /\ \/ AnyPageAnswered
     \/ \E r \in PageRequests :
          PageMistaken(r) \/ PageUnreachable(r) \/ PageLimited(r)
     \/ OthersAsk
     \/ TimePasses
     \/ RowsChange

(* Booking. *)

\* POST /v1/bookings is admitted.
Post ==
  /\ \E r \in RequestsFor("bookings") : Admitted(r) /\ Upstream(r) = "booking"
  /\ Begin
  /\ UNCHANGED <<listingVars, errand>>

TimeOut == Expire /\ UNCHANGED <<limiterVars, listingVars, errand>>

Work ==
  /\ pc # "idle"
  /\ ExchangeNext
  /\ UNCHANGED <<limiterVars, listingVars, errand>>

Hold ==
  /\ errand = "hold"
  /\ Post \/ Work

Next == Browse \/ Hold

\* Time passes; a customer that asks over and over, and is admitted over and
\* over, is answered at last; and the timer of the http.Client fires.
Fairness ==
  /\ WF_vars(Browsing /\ TimePasses)
  /\ SF_vars(Browsing /\ AnyPageAnswered)
  /\ WF_vars(errand = "hold" /\ Post)
  /\ WF_vars(errand = "hold" /\ TimeOut)

Spec == Init /\ [][Next]_vars /\ Fairness

-----------------------------------------------------------------------------
(* Properties. *)

TypeOK ==
  /\ LimiterTypeOK
  /\ ListingTypeOK
  /\ ExchangeTypeOK
  /\ errand \in {"browse", "hold"}

\* Every errand comes to an end: a walk reaches the last page however many rows
\* appear and whoever else fills the limiter, and every call of a booking
\* returns.
JourneyEnds == <>(cursor = End \/ pc = "done")

=============================================================================
