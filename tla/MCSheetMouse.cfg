\* One window, and F11.
SPECIFICATION Spec
CONSTANTS
    MAX_SHEETS = 4
    XSize = 2
    Colors = {2}
    MouseImage <- MCMouse
    WindowImages <- MCWindows
    Places <- MCPlaces
INVARIANT MouseAbove
