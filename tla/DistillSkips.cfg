CONSTANTS
    f1 = f1
    f2 = f2
    f3 = f3
    Fact = {f1, f2, f3}
    N = 5
    FactsOf <- MCFactsOf
    Chars <- MCChars
    MinChars = 600
SPECIFICATION Spec
INVARIANT NothingSkipped
