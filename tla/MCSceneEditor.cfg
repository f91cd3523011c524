SPECIFICATION Spec
CONSTANTS
    o1 = o1
    o2 = o2
    m1 = m1
    m2 = m2
    p1 = p1
    p2 = p2
    forward = forward
    t1 = t1
    t2 = t2
    None = None
    ObjectNames = {o1, o2}
    ModelNames = {m1, m2}
    PipelineNames = {p1, p2}
    PhaseNames = {forward}
    Textures = {t1, t2}
    Unloadable = {}
    SceneFiles <- MCSceneFiles
    EditorParam <- MCEditorParam
    Messages <- MCMessages
    LocalEdits <- MCLocalEdits
    ServerRuns = TRUE
    MaxMessages = 2
    MaxEdits = 1
INVARIANTS
    AdditionsArrive
    DeletedStayDeleted
    PaintIsSound
PROPERTIES
    OnlyLateRequestsAreDropped
    Delivered
    CloseEnds
