------------------------------ MODULE Catalog ------------------------------
(***************************************************************************)
(* The shows on sale: createAdminEvent and patchAdminEvent behind          *)
(* adminAuth (src/api/admin.go).                                           *)
(*                                                                         *)
(* A call is one request of somebody whom Accounts has let in.  A show is  *)
(* the row of an event; ids of events and of series are one kind of uuid,  *)
(* and an administrator may send any, except one that nobody can know yet. *)
(* What a sale looks like from inside is Booking's: here a seat is sold in *)
(* one step.                                                               *)
(***************************************************************************)
EXTENDS Accounts

CONSTANTS
  Null,
  Calls,
  Asked,          \* the bodies each call may send
  MaxUuid,        \* bound: ids that exist
  Names, Starts,
  SeedShows, SeedSeats,
  MaxSold         \* bound: seats sold

Uuids == 1..MaxUuid
Statuses == {"ON_SALE", "CLOSED"}

Create == [kind : {"create"}, wellformed : BOOLEAN, rows : Nat, cols : Nat,
           price : Nat, premium_rows : Nat, premium_price : Nat, status : Statuses,
           starts_at : Starts, series : Uuids \cup {Null},
           series_name : Names \cup {Null}, venue : Names \cup {Null}]
Patch == [kind : {"patch"}, wellformed : BOOLEAN, id : Uuids, status : Statuses]

Show == [id : Uuids, status : Statuses, internal : BOOLEAN, starts_at : Starts,
         series : Uuids \cup {Null}, series_name : Names \cup {Null},
         venue : Names \cup {Null}]
Seat == [price : Nat \ {0}, sold : BOOLEAN]

ASSUME CatalogAssumption ==
  /\ Asked \in [Calls -> SUBSET (Create \cup Patch)]
  /\ MaxUuid \in Nat /\ Starts \subseteq Nat /\ MaxSold \in Nat
  /\ Null \notin Uuids /\ Null \notin Names
  /\ Null \notin Create /\ Null \notin Patch /\ Null \notin Show
  /\ \A e \in DOMAIN SeedShows : SeedShows[e] \in Show /\ SeedShows[e].id = e
  /\ DOMAIN SeedSeats = DOMAIN SeedShows
  /\ \A e \in DOMAIN SeedSeats :
       DOMAIN SeedSeats[e] # {} /\ \A p \in DOMAIN SeedSeats[e] : SeedSeats[e][p] \in Seat
  /\ \A e, d \in DOMAIN SeedShows :
       SeedShows[e].series # Null /\ SeedShows[e].series = SeedShows[d].series
         => /\ SeedShows[e].series_name = SeedShows[d].series_name
            /\ SeedShows[e].venue = SeedShows[d].venue

VARIABLES
  shows,  \* the table events: the committed rows by id
  seats,  \* the table seats: of each show, what stands at a row and column
  ask,    \* the body of a call
  at,     \* how far a call is
  tx,     \* the row its open transaction has inserted
  told    \* its answer

showVars == <<shows, seats>>
callVars == <<ask, at, tx, told>>
catalogVars == <<showVars, callVars>>

CatalogInit ==
  /\ AccountsInit
  /\ shows = SeedShows /\ seats = SeedSeats
  /\ ask = [c \in Calls |-> Null] /\ at = [c \in Calls |-> "idle"]
  /\ tx = [c \in Calls |-> Null] /\ told = [c \in Calls |-> "none"]

Reached(c, s) == at' = [at EXCEPT ![c] = s] /\ UNCHANGED told
Told(c, code) == at' = [at EXCEPT ![c] = "ended"] /\ told' = [told EXCEPT ![c] = code]

-----------------------------------------------------------------------------
(* Ids *)

Open == {c \in Calls : tx[c] # Null}
Asking(kind) == {c \in Calls : ask[c] # Null /\ ask[c].kind = kind}

\* The ids a transaction has drawn are known to nobody before it commits.
Drawn == {tx[c].id : c \in Open} \cup
         {tx[c].series : c \in {d \in Open : ask[d].series = Null}}
Known(b) == IF b.kind = "create" THEN b.series \notin Drawn \ {Null} ELSE b.id \notin Drawn

\* gen_random_uuid draws what no row and no request has named.
Fresh == Uuids \ (Drawn \cup DOMAIN shows \cup {shows[e].series : e \in DOMAIN shows}
                   \cup {ask[c].series : c \in Asking("create")}
                   \cup {ask[c].id : c \in Asking("patch")})
Draw(S) == CHOOSE i \in S : TRUE

-----------------------------------------------------------------------------
(* adminAuth *)

\* The session's user is looked up anew at each call; a failing query refuses.
AdminAuth(c) ==
  /\ at[c] = "idle"
  /\ \E r \in Subs :
       /\ resp[r] = "ok"
       /\ \/ /\ users[form[r].email].admin
             /\ \E b \in Asked[c] : Known(b) /\ ask' = [ask EXCEPT ![c] = b]
             /\ Reached(c, "body")
          \/ /\ ~users[form[r].email].admin \/ "db_error" \in Faults
             /\ Told(c, "admin_only") /\ UNCHANGED ask
  /\ UNCHANGED <<accountVars, showVars, tx>>

-----------------------------------------------------------------------------
(* createAdminEvent *)

\* Mutant of PremiumPrice: the price that was sent, or 0 if none was.
PremiumPriceAsSent(b) == b.premium_price
PremiumPrice(b) == IF b.premium_price > 0 THEN b.premium_price ELSE b.price

\* Names, dates, statuses and the cap of an order are wellformed or not.
ValidShow(b) ==
  /\ b.wellformed /\ b.price > 0
  /\ b.rows \in 1..26 /\ b.cols \in 1..60 /\ b.rows * b.cols <= 2000
  /\ b.premium_rows <= b.rows

Layout(b) ==
  [p \in (1..b.rows) \X (1..b.cols) |->
     [price |-> IF p[1] <= b.premium_rows THEN PremiumPrice(b) ELSE b.price,
      sold |-> FALSE]]

\* The committed shows of the series that is joined; LIMIT 1 takes any of them.
Rounds(b) == {e \in DOMAIN shows : shows[e].series = b.series}

\* Mutant of JoinedNames: the name of the series is taken from the request.
JoinedNamesAsSent(b) == {b.series_name}
JoinedNames(b) == IF Rounds(b) = {} THEN {Null} ELSE {shows[e].series_name : e \in Rounds(b)}
JoinedVenues(b) == IF Rounds(b) = {} THEN {Null} ELSE {shows[e].venue : e \in Rounds(b)}

\* series, series_name and venue: of the series joined, of a new one, or none.
Grouping(b, id) ==
  IF b.series # Null
    THEN [series : {b.series}, series_name : JoinedNames(b), venue : JoinedVenues(b)]
  ELSE IF b.series_name # Null
    THEN {[series |-> Draw(Fresh \ {id}), series_name |-> b.series_name, venue |-> b.venue]}
    ELSE {[series |-> Null, series_name |-> Null, venue |-> Null]}

InsertShow(c) ==
  /\ at[c] = "body" /\ ask[c].kind = "create"
  /\ LET b == ask[c] id == Draw(Fresh) IN
       /\ Fresh \ {id} # {}
       /\ \/ /\ ~ValidShow(b)
             /\ Told(c, "bad_request") /\ UNCHANGED tx
          \/ /\ ValidShow(b)
             /\ \E g \in Grouping(b, id) :
                  tx' = [tx EXCEPT ![c] =
                           [id |-> id, status |-> b.status, internal |-> FALSE,
                            starts_at |-> b.starts_at, series |-> g.series,
                            series_name |-> g.series_name, venue |-> g.venue]]
             /\ Reached(c, "rows")
          \/ "db_error" \in Faults /\ Told(c, "db_error") /\ UNCHANGED tx
  /\ UNCHANGED <<accountVars, showVars, ask>>

With(f, e, v) == [x \in DOMAIN f \cup {e} |-> IF x = e THEN v ELSE f[x]]

\* The seats are inserted, and the transaction commits; or nothing of it stays.
CommitShow(c) ==
  /\ at[c] = "rows"
  /\ \/ /\ shows' = With(shows, tx[c].id, tx[c])
        /\ seats' = With(seats, tx[c].id, Layout(ask[c]))
        /\ Told(c, "created") \/ ("reply_lost" \in Faults /\ Told(c, "db_error"))
     \/ "db_error" \in Faults /\ Told(c, "db_error") /\ UNCHANGED showVars
  /\ tx' = [tx EXCEPT ![c] = Null]
  /\ UNCHANGED <<accountVars, ask>>

-----------------------------------------------------------------------------
(* patchAdminEvent, and what the sale changes *)

\* One UPDATE: it opens or closes the sale.  Its time and cap are Booking's.
PatchShow(c) ==
  /\ at[c] = "body" /\ ask[c].kind = "patch"
  /\ LET e == ask[c].id IN
       \/ /\ ~ask[c].wellformed
          /\ Told(c, "bad_request") /\ UNCHANGED shows
       \/ /\ ask[c].wellformed /\ e \notin DOMAIN shows
          /\ Told(c, "event_not_found") /\ UNCHANGED shows
       \/ /\ ask[c].wellformed /\ e \in DOMAIN shows
          /\ shows' = [shows EXCEPT ![e].status = ask[c].status]
          /\ Told(c, "updated") \/ ("reply_lost" \in Faults /\ Told(c, "db_error"))
       \/ "db_error" \in Faults /\ Told(c, "db_error") /\ UNCHANGED shows
  /\ UNCHANGED <<accountVars, seats, ask, tx>>

SoldAt(e) == {p \in DOMAIN seats[e] : seats[e][p].sold}

\* payOrder sells a seat.
Sell(e, p) ==
  /\ e \in DOMAIN shows /\ p \in DOMAIN seats[e] /\ ~seats[e][p].sold
  /\ Cardinality(UNION {{e2} \X SoldAt(e2) : e2 \in DOMAIN shows}) < MaxSold
  /\ seats' = [seats EXCEPT ![e][p].sold = TRUE]
  /\ UNCHANGED <<accountVars, shows, callVars>>

Call(c) == AdminAuth(c) \/ InsertShow(c) \/ CommitShow(c) \/ PatchShow(c)

CatalogNext ==
  \/ AccountsNext /\ UNCHANGED catalogVars
  \/ \E c \in Calls : Call(c)
  \/ \E e \in DOMAIN shows : \E p \in DOMAIN seats[e] : Sell(e, p)

CatalogSpec == CatalogInit /\ [][CatalogNext]_<<accountVars, catalogVars>>

-----------------------------------------------------------------------------
(* Properties *)

\* Every variable has its type; every show has its seats, each with a price, and an
\* open transaction has ids of its own.
CatalogTypeOK ==
  /\ AccountsTypeOK
  /\ DOMAIN shows \subseteq Uuids /\ DOMAIN seats = DOMAIN shows
  /\ \A e \in DOMAIN shows :
       /\ shows[e] \in Show /\ shows[e].id = e
       /\ DOMAIN seats[e] # {} /\ \A p \in DOMAIN seats[e] : seats[e][p] \in Seat
  /\ ask \in [Calls -> Create \cup Patch \cup {Null}]
  /\ tx \in [Calls -> Show \cup {Null}]
  /\ at \in [Calls -> {"idle", "body", "rows", "ended"}]
  /\ told \in [Calls -> {"none", "admin_only", "bad_request", "db_error", "created",
                         "updated", "event_not_found"}]
  /\ \A c \in Calls :
       /\ at[c] \in {"body", "rows"} => ask[c] # Null
       /\ at[c] = "rows" <=> tx[c] # Null
       /\ tx[c] # Null => tx[c].id \notin DOMAIN shows
       /\ told[c] # "none" <=> at[c] = "ended"

\* The rounds of a production agree on its name and venue, however calls that start
\* and join productions overlap, and whatever their bodies say of a production they
\* join, which may be one nobody has started (src/api/admin.go:187-206).
SeriesConsistent ==
  \A e, d \in DOMAIN shows :
    shows[e].series # Null /\ shows[e].series = shows[d].series =>
      /\ shows[e].series_name = shows[d].series_name
      /\ shows[e].venue = shows[d].venue

=============================================================================
