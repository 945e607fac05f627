SPECIFICATION Spec
CONSTANTS
    poster = poster
    edit = edit
    film = film
    clip = clip
    grab = grab
    data = data
    extract = extract
    x = x
    y = y
    z = z
    Media = {poster, edit, film, clip, grab, data, extract}
    Originals = {poster, edit, film, data}
    Probes = {clip, grab, extract}
    Raw <- MCRaw
    Bit = {0, 1, 2, 3, 4, 5}
    Mean = 0
    Band = {1, 2}
    Cosine <- MCCosine
    Nothing = Nothing
    None = None
    MaxFrames = 4
    MaxSound = 7
    MinFrames = 2
    MinSounds = 2
    Thread = {t1, t2}
    Limit = 1
    Confirmed = 550
    Review = 350
    MaxRegs = 2
    MaxSightings = 1
    MaxAnalyses = 2
SYMMETRY Symmetry
INVARIANTS
    TypeOK
    AnswersComplete
    ClipFound
    CacheBounded
CHECK_DEADLOCK FALSE
