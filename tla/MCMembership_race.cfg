SPECIFICATION Spec
CONSTANTS
    Users = {u1, u2, u3}
    Bootstrap = {u1}
    AutoJoin = TRUE
    Clients = {c1, c2}
    None = None
PROPERTIES TenantKeepsOwner
