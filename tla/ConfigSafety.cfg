CONSTANTS
    n1 = n1
    n2 = n2
    h1 = h1
    h2 = h2
    h3 = h3
    r1 = r1
    r2 = r2
    p1 = p1
    p2 = p2
    k1 = k1
    Node = {n1, n2}
    Hand = {h1, h2, h3}
    Lookalike = {h1}
    Named = {h3}
    Nobody = Nobody
    Request = {r1, r2}
    Provider = {p1}
    FirstChoice = p1
    Key = {k1}
    FirstText <- MCFirstText
    MaxActs = 4
SPECIFICATION Spec
INVARIANTS TypeOK WholeFiles FencesCompose
PROPERTIES OneChangeEach
SYMMETRY Threads
