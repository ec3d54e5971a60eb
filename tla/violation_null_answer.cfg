\* The same client; every answer that fits must be accepted.
SPECIFICATION RequestsSpec
CONSTANTS
    Kinds = {"function_call", "name_lookup", "resolve_futures"}
    Inputs = {"return", "raise", "pending", "name", "name_undefined", "futures"}
    MaxPrints = 2
    Entries <- TokenLists
    Clients <- ClientSet
    Number <- Rpm
    Unparsed = unparsed
    DefaultRate = 1
    ToMonty <- JsonToMonty
    ToException <- ExceptionFromParts
    Failed <- ConvertError
    Written <- Form
    Object <- JObject
    Same <- Equal
    Styles = {"short", "explicit"}
    Answers <- ClientAnswers
    Bindings <- ClientBindings
    ResumeBodies <- OddBodies
    SourceBodies <- OddSources
INVARIANTS
    AnyAnswerAccepted
