\* Three windows, which lie partly off the screen; 1 is drawn over with 2.
SPECIFICATION Spec
CONSTANTS
    MAX_SHEETS = 5
    XSize = 2
    Colors = {2}
    MouseImage <- MCMouse
    WindowImages <- MCWindows
    Places <- MCPlaces
INVARIANTS TypeOK StackSound MapCurrent
PROPERTY LayersSpec
