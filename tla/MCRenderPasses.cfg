SPECIFICATION Spec
CHECK_DEADLOCK FALSE
CONSTANTS
    ScreenWidth = 1280
    ScreenHeight = 720
    BufferCount = 2
    Styles = {"deferred", "forward"}
    MaxSwaps = 2
    MaxFrame = 4
PROPERTIES
    StatesMatch
    ReadsAreFresh
