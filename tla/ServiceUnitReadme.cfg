SPECIFICATION SeenSpec
CONSTANTS
    Lines = {0, 1}
INVARIANTS
    SeenIsBuffered
