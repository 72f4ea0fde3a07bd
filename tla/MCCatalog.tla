----------------------------- MODULE MCCatalog -----------------------------
(* An instance of Listings, over Catalog and Accounts: two submissions of  *)
(* the form, a bootstrap that may fail, and two calls of whoever is let in.*)
EXTENDS Listings, TLC

CONSTANTS r1, r2, c1, c2, admin, other, right, wrong

\* The administrator logs in, or somebody is first with the administrator's email; another
\* registers twice.
Filled ==
  {[mode |-> "login", email |-> admin, password |-> right, valid |-> TRUE],
   [mode |-> "register", email |-> admin, password |-> wrong, valid |-> TRUE],
   [mode |-> "register", email |-> other, password |-> right, valid |-> TRUE]}

\* Show 1 stands alone, 2 is a round of the series 3, 4 is the internal one.
Standing == [id |-> 1, status |-> "ON_SALE", internal |-> FALSE, starts_at |-> 2,
             series |-> Null, series_name |-> Null, venue |-> Null]
Seeded == 1 :> Standing
          @@ 2 :> [Standing EXCEPT !.id = 2, !.series = 3, !.series_name = "edm",
                                   !.venue = "arena"]
          @@ 4 :> [Standing EXCEPT !.id = 4, !.internal = TRUE, !.status = "CLOSED"]
SeededSeats == [e \in {1, 2, 4} |-> <<1, 1>> :> [price |-> 2, sold |-> e = 4]]

Body == [kind |-> "create", wellformed |-> TRUE, rows |-> 2, cols |-> 1, price |-> 1,
         premium_rows |-> 1, premium_price |-> 3, status |-> "ON_SALE", starts_at |-> 1,
         series |-> Null, series_name |-> Null, venue |-> Null]
Patched == [kind |-> "patch", wellformed |-> TRUE, id |-> 2,
            status |-> "CLOSED"]

\* A new production with the name of an old one; rounds of a series that stands, that
\* c1 has started (5), that nobody has (10), or that has the id of a show (1); a show on
\* its own; what is refused; and changes, 4 to a show that stays hidden.
Bodies ==
  c1 :> {[Body EXCEPT !.series_name = "edm"],
         [Body EXCEPT !.series = 3, !.series_name = "jazz", !.premium_price = 0],
         [Body EXCEPT !.series = 10, !.status = "CLOSED"], Patched} @@
  c2 :> {[Body EXCEPT !.starts_at = 3], [Body EXCEPT !.premium_rows = 3],
         [Body EXCEPT !.series = 1, !.starts_at = 3],
         [Body EXCEPT !.series = 5, !.venue = "club"],
         [Body EXCEPT !.series = 10, !.venue = "club"],
         [Patched EXCEPT !.id = 4, !.status = "ON_SALE"],
         [Patched EXCEPT !.id = 9], [Patched EXCEPT !.wellformed = FALSE]}

\* A bound: calls come when each submission is over and has succeeded and what is left
\* of its challenges has lapsed; the bootstrap overlaps with all.
OneAfterTheOther ==
  (\E c \in Calls : at[c] # "idle") =>
    fresh = {} /\ \A r \in Subs : resp[r] = "ok"

Alike == Permutations({r1, r2})
=============================================================================
