------------------------------- MODULE Routes -------------------------------
(***************************************************************************)
(* The agent proxy: one Lambda container that answers recommendation and   *)
(* route requests, one at a time.  The itinerary an agent made is given    *)
(* Kakao Mobility routes: a thread pool fetches the route of each day, in  *)
(* chunks of at most ChunkPoints points that share their ends, and the     *)
(* main thread writes each finished route and its legs into its day, in    *)
(* the order in which they finish.                                         *)
(*                                                                         *)
(* The agent, the provider and the parameter store are outside src/: what  *)
(* they answer is chosen freely among what the code tells apart.           *)
(***************************************************************************)
EXTENDS Naturals, FiniteSets, SequencesExt

CONSTANTS
    Days,               \* the days of an itinerary
    Places,             \* coordinates of stops
    None,               \* a stop without coordinates
    Itineraries,        \* itineraries the agent makes: day -> its stops
    Journeys,           \* coordinate lists clients ask a route for
    ChunkPoints,        \* MAX_KAKAO_ROUTE_POINTS
    MaxWorkers,         \* MAX_ROUTE_ENRICHMENT_WORKERS
    MaxCoordinates      \* MAX_ROUTE_COORDINATES

ASSUME ChunkAssumption == ChunkPoints \in Nat \ {0, 1}
ASSUME WorkersAssumption == MaxWorkers \in Nat \ {0}
ASSUME CoordinatesAssumption == MaxCoordinates \in Nat
ASSUME StopsAssumption == None \notin Places
ASSUME ItinerariesAssumption == Itineraries \subseteq [Days -> Seq(Places \cup {None})]
ASSUME JourneysAssumption == Journeys \subseteq Seq(Places)

VARIABLES
    stage,      \* "idle", "agent", "enriching" or "routing"
    key,        \* _ssm_parameter_cache: "unread", "blank" or "read"
    day,        \* day -> its stops, the leg of each stop, and its route
    job,        \* what fetches a route, per day and for a route request
    skewed      \* jobs to which the provider gave a section too few

vars == <<stage, key, day, job, skewed>>

Direct == "direct"  \* calculate_route, on the main thread
ASSUME DaysAssumption == Direct \notin Days
Jobs == Days \cup {Direct}
NoRoute == [segments |-> <<>>, geometry |-> <<>>]
NoDay == [stops |-> <<>>, leg |-> <<>>, route |-> NoRoute]
NoJob == [stage |-> "none"]

(* What a section of the provider's answer says: the way between two points,*)
(* without distance and duration if they are one place.                     *)
Leg(a, b) == [from |-> a, to |-> b]
NoLeg == Leg(None, None)    \* what the agent wrote itself
Moves(leg) == leg.from # leg.to

Sections(coordinates) ==
    [n \in 1 .. Len(coordinates) - 1 |-> Leg(coordinates[n], coordinates[n + 1])]

(* _extend_unique_coordinates, and one iteration of its loop *)
AppendUnique(target, coordinate) ==
    IF target = <<>> \/ Last(target) # coordinate
      THEN Append(target, coordinate) ELSE target
ExtendUnique(target, coordinates) ==
    LET extended[n \in 0 .. Len(coordinates)] ==
          IF n = 0 THEN target ELSE AppendUnique(extended[n - 1], coordinates[n])
    IN  extended[Len(coordinates)]

(* _fetch_route_chunk: the vertexes of each section's roads *)
GeometryOf(sections) ==
    LET through[n \in 0 .. Len(sections)] ==
          IF n = 0 THEN <<>>
          ELSE ExtendUnique(through[n - 1], <<sections[n].from, sections[n].to>>)
    IN  through[Len(sections)]

(* _valid_route_points: the stops whose coordinates _number_or_none takes   *)
HasPlace(stop) == stop # None
Points(stops) ==
    LET points[n \in 0 .. Len(stops)] ==
          IF n = 0 THEN <<>>
          ELSE IF HasPlace(stops[n]) THEN Append(points[n - 1], n)
          ELSE points[n - 1]
    IN  points[Len(stops)]
Coordinates(stops) == [i \in DOMAIN Points(stops) |-> stops[Points(stops)[i]]]

Fetch(state, coordinates) ==
    [stage |-> state, coordinates |-> coordinates, start |-> 1, route |-> NoRoute]

Init ==
    /\ stage = "idle"
    /\ key = "unread"
    /\ day = [d \in Days |-> NoDay]
    /\ job = [j \in Jobs |-> NoJob]
    /\ skewed = {}

(* _kakao_mobility_api_key: a blank parameter is cached like any other, a   *)
(* failed look-up is not.                                                   *)
LookUpKey(found) ==
    /\ key' = IF key = "unread" /\ found # "failed" THEN found ELSE key
    /\ found \in (IF key = "unread" THEN {"blank", "read", "failed"} ELSE {key})

Recommend ==
    /\ stage = "idle"
    /\ stage' = "agent"
    /\ day' = [d \in Days |-> NoDay]
    /\ job' = [j \in Jobs |-> NoJob]
    /\ skewed' = {}
    /\ UNCHANGED key

(* 502, as the agent cannot be reached or its answer cannot be used; or 200 *)
(* with an answer that has no days, a question back to the user.            *)
AgentEnds ==
    /\ stage = "agent"
    /\ stage' = "idle"
    /\ UNCHANGED <<key, day, job, skewed>>

(* enrich_itinerary_routes: the days with two points or more, if there is a *)
(* key.                                                                     *)
RouteJobs(itinerary, found) ==
    [j \in Jobs |->
       IF j # Direct /\ found = "read" /\ Len(Points(itinerary[j])) >= 2
         THEN Fetch("queued", Coordinates(itinerary[j]))
         ELSE NoJob]

(* A stop of the agent's itinerary keeps the times the agent gave it until  *)
(* a leg of its day's route replaces them.                                  *)
AgentAnswers(itinerary, found) ==
    /\ stage = "agent"
    /\ LookUpKey(found)
    /\ day' = [d \in Days |->
         [stops |-> itinerary[d], leg |-> [n \in DOMAIN itinerary[d] |-> NoLeg],
          route |-> NoRoute]]
    /\ job' = RouteJobs(itinerary, found)
    /\ stage' = "enriching"
    /\ UNCHANGED skewed

(* _validate_route_coordinates *)
ValidJourney(journey) == Len(journey) \in 2 .. MaxCoordinates

(* calculate_route; without a key, 502. *)
AskRoute(journey, found) ==
    /\ stage = "idle"
    /\ ValidJourney(journey)
    /\ LookUpKey(found)
    /\ day' = [d \in Days |-> NoDay]
    /\ job' = [j \in Jobs |->
         IF j = Direct /\ found = "read" THEN Fetch("running", journey) ELSE NoJob]
    /\ stage' = IF found = "read" THEN "routing" ELSE "idle"
    /\ skewed' = {}
-----------------------------------------------------------------------------
Running == {d \in Days : job[d].stage = "running"}

(* A thread of the pool takes the next day. *)
StartJob(d) ==
    /\ job[d].stage = "queued"
    /\ Cardinality(Running) < MaxWorkers
    /\ job' = [job EXCEPT ![d].stage = "running"]
    /\ UNCHANGED <<stage, key, day, skewed>>

(* _fetch_route: the chunk that starts at its start_index *)
EndOf(j) ==
    LET last == job[j].start + ChunkPoints - 1 IN
    IF last < Len(job[j].coordinates) THEN last ELSE Len(job[j].coordinates)
Chunk(j) == SubSeq(job[j].coordinates, job[j].start, EndOf(j))

(* The next chunk starts after the last point of this one. *)
BugNoOverlap(last) == last + 1
NextStart(last) == last

(* The provider's sections join what the job has. *)
WithChunk(route, sections) ==
    [segments |-> route.segments \o sections,
     geometry |-> ExtendUnique(route.geometry, GeometryOf(sections))]

FetchChunk(j, sections) ==
    /\ job[j].stage = "running"
    /\ job[j].start < Len(job[j].coordinates)
    /\ sections # <<>>
    /\ job' = [job EXCEPT ![j].start = NextStart(EndOf(j)),
                          ![j].route = WithChunk(@, sections)]
    /\ skewed' = IF sections = Sections(Chunk(j)) THEN skewed ELSE skewed \cup {j}
    /\ UNCHANGED <<stage, key, day>>

(* A section for every two neighbours, or one that is no object left out.   *)
Answers(coordinates) ==
    LET all == Sections(coordinates) IN
    {all} \cup {RemoveAt(all, n) : n \in DOMAIN all}

EndJob(j, state) ==
    /\ job' = [job EXCEPT ![j].stage = state]
    /\ UNCHANGED <<stage, key, day, skewed>>

(* No route for a chunk is no route at all.  So is a timeout, a broken      *)
(* answer or any other exception.                                           *)
FetchFails(j) ==
    /\ job[j].stage = "running"
    /\ job[j].start < Len(job[j].coordinates)
    /\ EndJob(j, "failed")

FetchDone(j) ==
    /\ job[j].stage = "running"
    /\ job[j].start >= Len(job[j].coordinates)
    /\ EndJob(j, "fetched")
-----------------------------------------------------------------------------
(* _apply_leg_summaries: the n-th segment is the leg of the n-th point.     *)
LegsApplied(stops, leg, segments) ==
    LET points == Points(stops) IN
    [n \in DOMAIN stops |->
       IF \E i \in DOMAIN segments :
            i < Len(points) /\ points[i] = n /\ Moves(segments[i])
         THEN segments[CHOOSE i \in DOMAIN segments : i < Len(points) /\ points[i] = n]
         ELSE leg[n]]

(* as_completed: one finished day, whichever comes first. *)
Collect(d) ==
    /\ stage = "enriching"
    /\ job[d].stage \in {"fetched", "failed"}
    /\ day' = IF job[d].stage = "failed" THEN day
              ELSE [day EXCEPT
                ![d].route = job[d].route,
                ![d].leg = LegsApplied(day[d].stops, @, job[d].route.segments)]
    /\ job' = [job EXCEPT ![d].stage = "collected"]
    /\ UNCHANGED <<stage, key, skewed>>

(* 200 with the itinerary, as far as it was enriched; 200 or 502 with the   *)
(* route.                                                                   *)
Reply ==
    /\ \/ /\ stage = "enriching"
          /\ \A d \in Days : job[d].stage \in {"none", "collected"}
       \/ /\ stage = "routing"
          /\ job[Direct].stage \in {"fetched", "failed"}
    /\ stage' = "idle"
    /\ UNCHANGED <<key, day, job, skewed>>

(* The Lambda's timeout, or a new container: what was under way is lost.    *)
Deadline ==
    /\ stage # "idle"
    /\ stage' = "idle"
    /\ key' = "unread"
    /\ day' = [d \in Days |-> NoDay]
    /\ job' = [j \in Jobs |-> NoJob]
    /\ skewed' = {}

KeyLookUps == {"blank", "read", "failed"}

Handle ==
    \/ Recommend \/ AgentEnds \/ Reply
    \/ \E itinerary \in Itineraries, found \in KeyLookUps : AgentAnswers(itinerary, found)
    \/ \E journey \in Journeys, found \in KeyLookUps : AskRoute(journey, found)
    \/ \E d \in Days : Collect(d)

Work(j) ==
    \/ job[j].stage = "running" /\ \E sections \in Answers(Chunk(j)) : FetchChunk(j, sections)
    \/ FetchFails(j) \/ FetchDone(j)

Next ==
    \/ Handle
    \/ \E d \in Days : StartJob(d)
    \/ \E j \in Jobs : Work(j)
    \/ Deadline

Spec == Init /\ [][Next]_vars
-----------------------------------------------------------------------------
(* Properties *)

(* A route is whole or absent: once all its chunks are there, it has the leg*)
(* of every two neighbouring points once and in order, across the ends that *)
(* chunks share, and its line passes them without standing still; unless    *)
(* the provider left a section out.                                         *)
RouteWhole(route, coordinates) ==
    /\ route.segments = Sections(coordinates)
    /\ route.geometry = ExtendUnique(<<>>, coordinates)

(* What a user is told of a day's travel is true: every stop with a way to  *)
(* the next one says the way from itself to that next one, whatever stops   *)
(* without coordinates lie between them, and the other stops, like all those*)
(* of a day without a route, keep what the agent said; in whatever order the*)
(* days finish and whichever of them fail.                                  *)
DayTrue(told) ==
    LET stops == told.stops
        NextPoint(n) == CHOOSE m \in DOMAIN stops :
          /\ m > n /\ stops[m] # None
          /\ \A k \in n + 1 .. m - 1 : stops[k] = None
        HasNext(n) == stops[n] # None /\ \E m \in n + 1 .. Len(stops) : stops[m] # None
    IN  \A n \in DOMAIN stops :
          told.leg[n] =
            IF /\ told.route # NoRoute
               /\ HasNext(n)
               /\ stops[n] # stops[NextPoint(n)]
              THEN Leg(stops[n], stops[NextPoint(n)])
              ELSE NoLeg

LegsOfTheDay ==
    /\ \A j \in Jobs \ skewed : job[j].stage = "fetched" =>
         RouteWhole(job[j].route, job[j].coordinates)
    /\ \A d \in Days \ skewed :
         /\ day[d].route # NoRoute => RouteWhole(day[d].route, Coordinates(day[d].stops))
         /\ DayTrue(day[d])
=============================================================================
