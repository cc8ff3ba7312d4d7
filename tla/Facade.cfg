\* One slug built and deleted, asked for by name and not.
\* Two repositories with a generation each, built once more and deleted while
\* Chroma refuses one call.
SPECIFICATION Spec
CONSTANTS
    Slugs    = {a}
    Requests = {r1, r2}
    All      = All
    Scopes   = {All, {a}}
    Deletes  = TRUE
    MaxGen   = 2
    Repositories   = {p, q}
    MaxGenerations = 2
    MaxSweeps      = 2
    MaxRefusals    = 1
SYMMETRY Symmetry
\* Builds, searches and deletes are bounded.
CHECK_DEADLOCK FALSE
INVARIANTS AnswersAreCurrent CachedGenerations
PROPERTY DeletesAreExact
