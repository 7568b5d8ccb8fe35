SPECIFICATION Spec
CONSTANTS
    k1 = k1
    k2 = k2
    k3 = k3
    p1 = p1
    p12 = p12
    p3 = p3
    p1x = p1x
    t1 = t1
    t2 = t2
    Thread = {t1, t2}
    Key <- MCKey
    Prefix <- MCPrefix
    StartsWith <- MCStartsWith
    Longer <- MCLonger
    InitKeys <- MCInitKeys
    AdminToken = AdminToken
    Nobody = Nobody
    None = None
INVARIANT AcknowledgedKept
