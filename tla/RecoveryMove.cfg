CONSTANTS
    r1 = r1
    r2 = r2
    c1 = c1
    c2 = c2
    Request = {r1}
    Nobody = Nobody
    Credential = {c1, c2}
    NoCredential = NoCredential
    Indexed = {c1}
SPECIFICATION Spec
INVARIANTS
    QuietTerminalEventReleases
