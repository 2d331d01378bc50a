SPECIFICATION Spec
CONSTANTS
    d1 = d1
    d2 = d2
    d3 = d3
    a = a
    b = b
    c = c
    None = None
    Days <- MCDays
    Places <- MCPlaces
    Itineraries <- MCItineraries
    Journeys <- MCJourneys
    ChunkPoints = 3
    MaxWorkers = 2
    MaxCoordinates = 5
INVARIANT
    LegsOfTheDay
