CONSTANTS
    Previews = {p1}
    Parts = {"name"}
    TitleOf <- OneTitle
    Handlers = {h1}
    Prints = {form, changed}
    PreviewTTL = 1
    MaxTime = 2
SPECIFICATION Spec
PROPERTIES FinalButtonSends
CHECK_DEADLOCK FALSE
