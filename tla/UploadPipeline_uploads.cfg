\* Three uploads, with failures of agents, handlers and the process at every
\* step, on either database.
SPECIFICATION Spec
CONSTANTS
    Uploads = {u1, u2, u3}
    Contents = {"scan", "auth", "command", "code"}
    Type <- AllTypes
    Indicative = {"scan"}
    Suspicious = {"code", "auth"}
    Severities = {"low", "high"}
    Databases = {"SQLite", "PostgreSQL"}
SYMMETRY Symmetry
INVARIANTS
    PlanRowIsOnePlan
    AssessedIsAnalyzed
PROPERTIES
    ReportIsOneRunBehind
    ReportComesWithPlan
