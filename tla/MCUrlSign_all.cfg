SPECIFICATION FairSpec
CONSTANTS
    Thread = {t1, t2, t3}
    Request = {r1}
    Entry = {"signUrl", "signVenusWebUrl"}
    Package = "instalive"
    Order <- MCOrder
    Certs <- MCCerts
    Free = Free
INVARIANTS AsIfAlone OrderIsIrrelevant
PROPERTIES CallsReturn
