CONSTANTS
    One = 2
    Limit = 8
    Precision = 8
    None = None
    RawTexts <- AllTexts
    Summands <- AllMoney
    Steps <- AllSteps
    Drafts <- DraftsWith
    ForeignDocuments <- OddDocuments
    Instants = {0, 1, 2}
    ProductIds = {"p", "q"}
    EventIds = {"e1", "e2"}
    Currencies = {"USDT", "BTC"}
    Event1 = "e1"
    Event2 = "e2"
SPECIFICATION ExchangeSpec
INVARIANTS ExchangeTypeOK FiguresExact BuiltIsReceived ReceivedIsBuildable AccountsReadOneWay TargetsMeanSomething
