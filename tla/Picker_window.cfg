SPECIFICATION Spec
CONSTANTS
    None = None
    Alphabet = {"emoji", "accent", "space"}
    MaxLen = 2
    Typed <- OneChar
    Placeholder <- Hint
    Names <- TwoNames
    Active = {2}
INVARIANTS TypeOK NoPanic FocusIsShown
PROPERTY SendsWhatMatches
\* The window closes.
CHECK_DEADLOCK FALSE
