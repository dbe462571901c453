SPECIFICATION MCSpec
CONSTANTS
    ascii = ascii
    hangul = hangul
    long = long
    Titles = {pokemon, zelda, mario}
    Packages <- MCPackages
    Texts <- MCTexts
    Drawable <- MCDrawable
    TooLong <- MCTooLong
    LangCount = 3
    MaxEntries = 2
    Blank = Blank
    NoName = NoName
    None = None
    AsciiNames = FALSE
    MaxChanges = 2
    MaxFaults = 1
INVARIANTS NamesAreLookups
PROPERTIES FileTellsTheLaunch
CHECK_DEADLOCK FALSE
