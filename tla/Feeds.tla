------------------------------- MODULE Feeds -------------------------------
(***************************************************************************)
(* The recommendation feeds: what recommendations/service.py makes of the  *)
(* saved plans and likes that reaction_repository.py reads, in whatever    *)
(* state saves, clones, deletes and likes have left them.  Nothing is      *)
(* written here, so the module adds operators over SavedPlans and no       *)
(* action.  There are no times and no names: where the SQL orders by       *)
(* reacted_at or saved_at, or service.py decides the last ties by name,    *)
(* every order is taken, so what is read and what is shown are sets of     *)
(* possibilities.                                                          *)
(***************************************************************************)
EXTENDS SavedPlans, Sequences

CONSTANTS
    Cities,         \* ids of the city catalogue
    Country,        \* city of the catalogue -> country of its record
    Pictured,       \* cities whose record has an image_url
    Themes,         \* cities and contents -> their theme labels
    CityOf,         \* content -> its destinationId, a city or any other text
    StatedCountry,  \* content -> destination.country, any text, or None
    PrefixCountry,  \* destinationId -> "KR" or "JP" if it starts so, or None
    BirthYear,      \* user -> year of birth_date, or None
    ThisYear,       \* current year in SERVICE_TIMEZONE
    SignalLimits,   \* LIMITs of list_liked_itinerary_signals (20 at least)
    PopularLimit,   \* LIMIT of list_popular_destination_signals
    Limit           \* cities on a page

ASSUME CatalogueAssumption ==
    /\ IsFiniteSet(Cities)
    /\ \A x \in Cities \cup Contents : IsFiniteSet(Themes[x])
ASSUME LimitsAssumption == SignalLimits \subseteq Nat /\ Limit \in Nat

Fewest(m, n) == IF m < n THEN m ELSE n

(* sorted(...)[:limit] and ORDER BY ... LIMIT: the first n, in an order that*)
(* may leave ties.  ahead has, for each one sorted, those that precede it.  *)
Firsts(ahead, n) ==
    {S \in SUBSET DOMAIN ahead :
       /\ Cardinality(S) = Fewest(n, Cardinality(DOMAIN ahead))
       /\ \A x \in S : ahead[x] \subseteq S}

(* _signal_city_id: no plan is saved without a destinationId. *)
Destination(p) == CityOf[plan[p].hash]

(* _signal_country: the country the client gave, or else that of the id; a  *)
(* destination may have neither.                                            *)
ValidCountries == {"KR", "JP"}
SignalCountry(p) ==
    IF StatedCountry[plan[p].hash] \in ValidCountries
      THEN StatedCountry[plan[p].hash]
      ELSE PrefixCountry[Destination(p)]

(* list_liked_itinerary_signals: the newest likes of live plans.            *)
LikedPlans(u) == {p \in Plans : <<u, p>> \in likes /\ Live(p)}
LikedSignals(u, limit) ==
    {s \in [1 .. Fewest(limit, Cardinality(LikedPlans(u))) -> LikedPlans(u)] :
       \A i, j \in DOMAIN s : s[i] = s[j] => i = j}
-----------------------------------------------------------------------------
(* reaction_cities *)
Score(city, p) ==
    30 * Cardinality(Themes[city] \cap Themes[plan[p].hash])
      + (IF city \in Pictured THEN 4 ELSE 0)

(* A signal speaks for the cities of its country, and for the cities of     *)
(* every country if it has none.                                            *)
SpeaksFor(p, city) == SignalCountry(p) \in {None, Country[city]}

(* Only the signal at hand is kept from recommending its own city. *)
BugOwnCityOnly(city, s, k) ==
    SpeaksFor(s[k], city) /\ city # Destination(s[k])
Recommendable(city, s, k) ==
    /\ SpeaksFor(s[k], city)
    /\ \A i \in DOMAIN s : city # Destination(s[i])

(* The candidate a city is after the first k signals: its score and the     *)
(* signal that gave it, the earliest of the best; score 0 while it is none. *)
Candidates(s) ==
    LET after[k \in 0 .. Len(s)] ==
          IF k = 0 THEN [city \in Cities |-> [score |-> 0, signal |-> 0]]
          ELSE [city \in Cities |->
                  IF /\ Recommendable(city, s, k)
                     /\ Score(city, s[k]) > after[k - 1][city].score
                    THEN [score |-> Score(city, s[k]), signal |-> k]
                    ELSE after[k - 1][city]]
    IN  after[Len(s)]

(* The page: the best candidates, those of an earlier signal first.         *)
ReactionCities(s) ==
    LET all == Candidates(s)
        offered == {city \in Cities : all[city].score > 0}
        ahead == [city \in offered |-> {other \in offered :
          \/ all[other].score > all[city].score
          \/ /\ all[other].score = all[city].score
             /\ all[other].signal < all[city].signal}]
    IN  Firsts(ahead, Limit)
-----------------------------------------------------------------------------
(* popular_destinations *)

(* list_popular_destination_signals: live plans with a like, the most liked *)
(* ones if they are more than its LIMIT.                                    *)
ReactionCount(p) == Cardinality({u \in Users : <<u, p>> \in likes})
PopularSignals ==
    LET popular == {p \in Plans : Live(p) /\ ReactionCount(p) > 0}
        ahead == [p \in popular |->
                    {q \in popular : ReactionCount(q) > ReactionCount(p)}]
    IN  Firsts(ahead, PopularLimit)

(* _age_group: the year alone, so one is as old as on the last of December. *)
AgeGroup(u) ==
    LET age == ThisYear - BirthYear[u] IN
    IF BirthYear[u] = None \/ age < 20 THEN None
    ELSE 10 * Fewest(6, age \div 10)

(* The plans of S that an age group's aggregate of a city adds up, and the  *)
(* users they count.                                                        *)
Aggregate(S, group, city) ==
    {p \in S : AgeGroup(plan[p].owner) = group /\ Destination(p) = city}
UserIds(plans) == {plan[p].owner : p \in plans}

(* One user is enough. *)
BugOfOne(plans) == Cardinality(UserIds(plans)) >= 1
Eligible(plans) == Cardinality(UserIds(plans)) >= 2

Reactions(plans) ==
    Cardinality({pair \in likes : pair[2] \in plans})

(* _age_group_items: by reactions and saved plans.                          *)
AgeGroupItems(S, group) ==
    LET plans(city) == Aggregate(S, group, city)
        eligible == {city \in {Destination(p) : p \in S} : Eligible(plans(city))}
        ahead == [city \in eligible |-> {other \in eligible :
          \/ Reactions(plans(other)) > Reactions(plans(city))
          \/ /\ Reactions(plans(other)) = Reactions(plans(city))
             /\ Cardinality(plans(other)) > Cardinality(plans(city))}]
    IN  Firsts(ahead, Limit)
-----------------------------------------------------------------------------
(* Properties *)

(* What the likes are worth to a user, whatever the order they were read in:*)
(* the feed offers no city of a plan that was read, each city it offers has *)
(* a score with such a plan, and none it leaves out has a higher one.  Every*)
(* like was read unless there are more than the LIMIT, and the city of a    *)
(* liked plan comes back only to who likes so many plans to other places.   *)
BestScore(read, city) ==
    LET scores == {Score(city, p) : p \in {q \in read : SpeaksFor(q, city)}}
    IN  CHOOSE n \in scores \cup {0} : \A m \in scores : m <= n
Unvisited(read) == Cities \ {Destination(p) : p \in read}

FollowsWhatWasRead(read, page) ==
    /\ page \subseteq {city \in Unvisited(read) : BestScore(read, city) > 0}
    /\ \A city \in page, other \in Unvisited(read) \ page :
         BestScore(read, other) <= BestScore(read, city)
    /\ Cardinality(page) < Limit =>
         \A other \in Unvisited(read) \ page : BestScore(read, other) = 0

ReactionsFollowLikes ==
    \A u \in Users, limit \in SignalLimits : \A s \in LikedSignals(u, limit) :
      LET liked == LikedPlans(u)
          read == {s[i] : i \in DOMAIN s}
      IN  /\ Cardinality(liked) <= limit => read = liked
          /\ \A page \in ReactionCities(s) :
               /\ FollowsWhatWasRead(read, page)
               /\ \A p \in liked : Destination(p) \in page =>
                    Cardinality({q \in liked : Destination(q) # Destination(p)}) >= limit

(* The public age-group lists never rest on one person: a city is listed    *)
(* for a group only while two of its users each keep and like a plan to it, *)
(* private or not, however their plans were saved, cloned or deleted.       *)
AgeGroupsOfTwo ==
    \A S \in PopularSignals, group \in {AgeGroup(u) : u \in Users} \ {None} :
      \A items \in AgeGroupItems(S, group) : \A city \in items :
        \E u, v \in Users :
          /\ u # v /\ AgeGroup(u) = group /\ AgeGroup(v) = group
          /\ \A w \in {u, v} : \E p \in LikedPlans(w) :
               plan[p].owner = w /\ Destination(p) = city
=============================================================================
