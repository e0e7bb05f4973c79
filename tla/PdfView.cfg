\* Two loads of two pages, zoomed, resized and painted in every order.
SPECIFICATION Spec
CONSTANTS
    None = None
    MaxLoads = 2
    MaxEpochs = 3
    PageCount = 2
    MaxScale = 3
    UnitScale = 2
    Panels <- SomePanels
    Records <- SomeRecords
INVARIANTS NoDocumentLeaks OnePaintPerCanvas PagesAreSharp
           OverlayIsThePlan ControlsAreTrue
CHECK_DEADLOCK FALSE
