SPECIFICATION PlatformSpec
CONSTANTS
    c1 = c1
    c2 = c2
    e1 = e1
    e2 = e2
    emp = emp
    fleet = fleet
    s1 = s1
    q1 = q1
    q2 = q2
    a1 = a1
    a2 = a2
    k1 = k1
    g1 = g1
    h1 = h1
    d1 = d1
    f1 = f1
    f2 = f2
    f3 = f3
    f4 = f4
    Company = {c1, c2}
    Employee = {e1, e2}
    Veteran = {c2}
    Tool = {emp, fleet}
    Req = {q1, q2}
    AdminTool = {emp}
    manage_employees = emp
    manage_fleet = fleet
    PermSet = {s1}
    VehicleLimit = 1
    Choice <- AllChoices
    Holder = {c1}
    Owner = {c1}
    Volatile = {emp, fleet}
    Point = {1, 2, 3, 4}
    latitude <- MCLatitude
    country <- MCCountry
    cnKm = 1000
    kzKm = 400
    Event = {k1, g1, h1, d1}
    Kind <- MCKind
    Direction <- MCDirection
    Poster = c2
    receive_cargo_by_route = fleet
    manage_customs_docs = fleet
    Route <- MCRoutes
    Watcher = {c1}
    Upload = {f1, f2, f3, f4}
    Uploader <- MCUploader
    FileKind <- MCFileKind
    FileName <- MCFileName
    Content <- MCContent
    submit_fill_report = fleet
    Online = {c1}
    Attempt = {a1, a2}
    accessTTL = 2
    refreshTTL = 3
    limit = 1
    window = 2
    touchInterval = 1
    Message = {1, 2, 3}
    Sender <- TwoSenders
    Page = 1
    Reader = {c1, c2}
    Serial = TRUE
    Blockable = {c1}
    Scopes <- ChatOnly
SYMMETRY Symmetric
INVARIANT LiveTail
