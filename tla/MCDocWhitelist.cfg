CONSTANTS
    Accounts = {a1, a2}
    None = None
SPECIFICATION Spec
PROPERTIES
    OncePerRefreshTime
