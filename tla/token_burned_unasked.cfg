SPECIFICATION Spec
CONSTANTS
    adm = adm
    al = al
    Addr = {adm, al}
    Admin = adm
    Supplies = {1}
    Amounts = {1, 2}
    Payments <- AllPayments
    Spenders = {al}
    Batches <- SomeBatches
    Periods = {}
    Vestings = {}
    Flags = {TRUE, FALSE}
    Reviewed = {adm, al}
    MaxBatchSize = 2
    MaxI128 = 4
    MaxSlots = 1
    MaxTime = 0
PROPERTIES
    NothingTakenUnasked
