SPECIFICATION Spec
CONSTANTS
    d1 = d1
    d2 = d2
    memo = memo
    note = note
    scan = scan
    bill = bill
    torn = torn
    locked = locked
    photo = photo
    sheet = sheet
    smudge = smudge
    junk = junk
    letterhead = letterhead
    icon = icon
    stamp = stamp
    content = content
    english = english
    german = german
    eng = eng
    deu = deu
    NoJob = NoJob
    NoModel = NoModel
    Datasets = {d1, d2}
    Docs = {memo, note, scan, bill, torn, locked, photo, sheet, smudge, junk}
    Kind <- MCKind
    Pages <- MCPages
    Damaged = {torn, locked, smudge, junk}
    Images = {letterhead, icon, stamp, content}
    Readable = {letterhead, stamp, content}
    Languages = {english, german}
    ModelOf <- MCModelOf
    Loads <- MCLoads
    Workers = {w1, w2}
    MaxLosses = 2
    Server = Server
SYMMETRY Symmetry
INVARIANTS
    TypeOK
    PdfIsArchived
    ConversionsAreReused
    CleanRunIsWhole
    IndexFollowsPages
