------------------------------ MODULE Listings ------------------------------
(***************************************************************************)
(* The lists of the shows (listEvents in src/api/handlers.go,              *)
(* listAdminEvents in src/api/admin.go), and the productions the pages     *)
(* make of them: each a function of a state of Catalog.                    *)
(***************************************************************************)
EXTENDS Catalog, Sequences
INSTANCE Productions
LOCAL INSTANCE TLC
LOCAL INSTANCE FiniteSetsExt

-----------------------------------------------------------------------------
(* The lists *)

Least(S) == CHOOSE i \in S : \A j \in S : i <= j

Available(e) == DOMAIN seats[e] \ SoldAt(e)
Prices(e) == {seats[e][p].price : p \in DOMAIN seats[e]}
SoldFor(e) == FoldSet(LAMBDA p, sum : sum + seats[e][p].price, 0, SoldAt(e))

\* ORDER BY series_id NULLS FIRST, starts_at.
Before(x, y) ==
  \/ x.series = Null /\ y.series # Null
  \/ x.series = y.series /\ x.starts_at < y.starts_at
  \/ x.series # Null /\ y.series # Null /\ x.series < y.series

\* row is a function of the ids listed.
Rows(row) ==
  LET ids == SelectSeq([i \in Uuids |-> i], LAMBDA e : e \in DOMAIN row)
  IN  SortSeq([i \in DOMAIN ids |-> row[ids[i]]], Before)

ListEvents ==
  Rows([e \in {s \in DOMAIN shows : shows[s].status = "ON_SALE" /\ ~shows[s].internal} |->
         [id |-> e, starts_at |-> shows[e].starts_at, series |-> shows[e].series,
          series_name |-> shows[e].series_name, venue |-> shows[e].venue,
          available |-> Cardinality(Available(e)),
          price_from |-> IF Prices(e) = {} THEN 0 ELSE Least(Prices(e))]])

ListAdminEvents ==
  Rows([e \in {s \in DOMAIN shows : ~shows[s].internal} |->
         [id |-> e, starts_at |-> shows[e].starts_at, series |-> shows[e].series,
          series_name |-> shows[e].series_name, venue |-> shows[e].venue,
          total |-> Cardinality(DOMAIN seats[e]),
          sold |-> Cardinality(SoldAt(e)), revenue |-> SoldFor(e)]])

-----------------------------------------------------------------------------
(* Properties *)

ShowIds(list) == {x.id : x \in ShowsOf(list)}
SeatsIn(g, S(_)) == UNION {{e} \X S(e) : e \in ShowIds(g.shows)}

Partitioned(list, groups) ==
  /\ \A e \in ShowIds(list) :
       Cardinality({i \in DOMAIN groups : e \in ShowIds(groups[i].shows)}) = 1
  /\ \A i \in DOMAIN groups :
       /\ Len(groups[i].shows) = Cardinality(ShowIds(groups[i].shows))
       /\ ShowIds(groups[i].shows) \subseteq ShowIds(list)
       /\ \A j, k \in DOMAIN groups[i].shows :
            j < k => groups[i].shows[j].starts_at <= groups[i].shows[k].starts_at

\* The pages count each show of a list in one production, with the seats the database
\* has of it at that moment; to the administrator a production is exactly the rounds
\* of one series, under their common name and venue (grouping.js, and the
\* lists of src/api/admin.go:53-68 and src/api/handlers.go:129-141).
ProductionsAreWhole ==
  LET listed == ListEvents
      all == ListAdminEvents
      page == GroupEvents(listed)
      panel == GroupAdminEvents(all)
  IN
  /\ Partitioned(listed, page) /\ Partitioned(all, panel)
  /\ \A g \in ShowsOf(page) :
       LET prices == UNION {Prices(e) : e \in ShowIds(g.shows)} IN
         /\ g.available = Cardinality(SeatsIn(g, Available))
         /\ g.priceFrom \in prices /\ \A p \in prices : g.priceFrom <= p
  /\ \A g \in ShowsOf(panel) : \A x \in ShowsOf(g.shows) :
       /\ ShowIds(g.shows) = IF x.series = Null THEN {x.id} ELSE
                               {e \in ShowIds(all) : shows[e].series = x.series}
       /\ x.series # Null => g.name = x.series_name /\ g.venue = x.venue
       /\ g.total = Cardinality(SeatsIn(g, LAMBDA e : DOMAIN seats[e]))
       /\ g.sold = Cardinality(SeatsIn(g, SoldAt))
       /\ g.revenue = FoldSet(LAMBDA s, sum : sum + seats[s[1]][s[2]].price, 0,
                              SeatsIn(g, SoldAt))

=============================================================================
