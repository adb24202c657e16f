CONSTANTS
    Clients = {c1, c2}
SPECIFICATION Spec
INVARIANT OwnUsername
