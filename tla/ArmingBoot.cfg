CONSTANTS
    one = one
    other = other
    env = env
    Accounts = {one, other}
    Env = env
    PaperTest = FALSE
SPECIFICATION Spec
INVARIANT StaysDisarmed
