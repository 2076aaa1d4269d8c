SPECIFICATION LlmSpec
CONSTANTS
    None = None
    NaN = NaN
    Empty = Empty
    Blank = Blank
    BadDate = BadDate
    Malformed = Malformed
    Prose = Prose
    Braces = Braces
    Acme = Acme
    Inv7 = Inv7
    Ann = Ann
    Mail = Mail
    m1 = m1
    m2 = m2
    RulesFile <- MCRules
    Today <- MCToday
    Documents <- MCDocuments
    Payloads <- MCPayloads
    Confidences <- MCConfidences
    MinConfidence = 75
    MaxRetries = 2
    EnableGuardrails = TRUE
    RecursionLimit = 8
    SettingsSet <- MCSettings
    ErrorCodes <- MCErrorCodes
    ClassifyTexts <- MCClassifyTexts
    ExtractTexts <- MCExtractTexts
INVARIANTS
    ApprovalIsConfident
