---------------------------- MODULE Productions ----------------------------
(***************************************************************************)
(* src/web/features/catalog/grouping.js: the shows of a list folded into   *)
(* productions, for the customer and for the administrator.  A show is a   *)
(* record of the list the API answers with; its own name is left out, and  *)
(* its id stands for it.                                                   *)
(***************************************************************************)
EXTENDS Naturals, FiniteSets, Sequences
LOCAL INSTANCE TLC
LOCAL INSTANCE SequencesExt

CONSTANT Null

\* The Map: in the order of the keys' first shows.  key is a function of the shows.
Folded(list, key) ==
  LET Add(groups, e) ==
        IF \E i \in DOMAIN groups : groups[i].key = key[e]
          THEN [i \in DOMAIN groups |->
                  IF groups[i].key = key[e]
                    THEN [groups[i] EXCEPT !.shows = Append(@, e)] ELSE groups[i]]
          ELSE Append(groups,
                 [key |-> key[e], venue |-> e.venue, shows |-> <<e>>,
                  name |-> IF e.series = Null THEN e.id ELSE e.series_name])
  IN  FoldLeft(Add, <<>>, list)

Total(shows, field) == FoldLeft(LAMBDA s, e : s + e[field], 0, shows)
ByStart(shows) == SortSeq(shows, LAMBDA a, b : a.starts_at < b.starts_at)
ShowsOf(list) == {list[i] : i \in DOMAIN list}

CustomerKey(e) == IF e.series = Null THEN e.id ELSE e.series

GroupEvents(list) ==
  LET Summed(g) ==
        LET prices == {e.price_from : e \in ShowsOf(g.shows)} \ {0}
        IN  [key |-> g.key, name |-> g.name, venue |-> g.venue,
             shows |-> ByStart(g.shows),
             available |-> Total(g.shows, "available"),
             priceFrom |-> IF prices = {} THEN 0
                           ELSE CHOOSE p \in prices : \A q \in prices : p <= q]
      groups == Folded(list, [e \in ShowsOf(list) |-> CustomerKey(e)])
  IN  [i \in DOMAIN groups |-> Summed(groups[i])]

\* Mutant of AdminKey: shows are matched by the name of the production.
AdminKeyByName(e) == <<e.series = Null, IF e.series = Null THEN e.id ELSE e.series_name>>
AdminKey(e) == <<e.series = Null, CustomerKey(e)>>

GroupAdminEvents(list) ==
  LET Summed(g) ==
        [key |-> g.key, name |-> g.name, venue |-> g.venue,
         shows |-> ByStart(g.shows),
         sold |-> Total(g.shows, "sold"),
         total |-> Total(g.shows, "total"),
         revenue |-> Total(g.shows, "revenue")]
      groups == Folded(list, [e \in ShowsOf(list) |-> AdminKey(e)])
  IN  [i \in DOMAIN groups |-> Summed(groups[i])]

=============================================================================
