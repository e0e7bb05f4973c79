\* Two calls beside another program that writes once.
SPECIFICATION ToolsSpec
CONSTANTS
    None = None
    Junk = Junk
    first = first
    second = second
    Calls = {first, second}
    ToolsOf <- SomeTools
    Styles <- SomeStyles
    Documents <- SomeDocuments
    NewTexts <- SomeTexts
    Levels <- SomeLevels
    Specs <- SomeSpecs
    Reads <- SomeReads
    MapOfMarkup <- BuiltMap
    OutlineOfMarkup <- Outline
    MaxWrites = 1
    MaxTextLength = 5
    MaxItems = 2
    MaxBlocks = 3
    DefaultReadLimit = 3
    MaxReadLimit = 4
    MinPartialChars = 3
INVARIANT CreateReportsAreTrue
PROPERTIES MapIsTheDocument EditHitsWhatWasRead BoxIsTheChange CreatedAsAsked
CHECK_DEADLOCK FALSE
