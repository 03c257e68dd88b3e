SPECIFICATION Spec
CONSTANTS
    adm = adm
    al = al
    Addr = {adm, al}
    Admin = adm
    Supplies = {4}
    Amounts = {1, 3}
    Payments <- OnePayment
    Spenders = {}
    Batches <- NoBatches
    Periods = {0, 2}
    Vestings = {"Cliff", "Linear"}
    Flags = {}
    Reviewed = {}
    MaxBatchSize = 2
    MaxI128 = 8
    MaxSlots = 2
    MaxTime = 2
PROPERTIES
    OnlySeizureUncovers
    UnlockReleasesEnough
    RefinesLedger
