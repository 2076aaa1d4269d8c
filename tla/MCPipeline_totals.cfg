SPECIFICATION Spec
CONSTANTS
    None = None
    NaN = NaN
    Empty = Empty
    Blank = Blank
    BadDate = BadDate
    Acme = Acme
    Unlisted = Unlisted
    Inv7 = Inv7
    Ghost = Ghost
    Ann = Ann
    Boris = Boris
    Mail = Mail
    TaxId = TaxId
    OddTaxId = OddTaxId
    Passport = Passport
    IdNo = IdNo
    OddIdNo = OddIdNo
    Bank = Bank
    RulesFile <- MCRules
    Today <- MCToday
    Documents <- MCDocuments
    Payloads <- MCPayloads
    Confidences <- MCConfidences
    MinConfidence = 75
    MaxRetries = 2
    EnableGuardrails = TRUE
    RecursionLimit = 10
INVARIANTS
    LargeTotalsFlagged
