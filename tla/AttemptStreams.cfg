SPECIFICATION Spec
CONSTANTS
    nl = nl
    sp = sp
    pct = pct
    info = info
    rec = rec
    mp4 = mp4
    m4a = m4a
    err = err
    lic = lic
    word = word
    LineEnd = nl
    Blank = sp
    Percent = pct
    Info = info
    Recorded = rec
    Media = {mp4, m4a}
    Alarm = {err}
    Licence = lic
    Words = {nl, sp, pct, info, rec, mp4, m4a, err, lic, word}
    Texts <- ManyTexts
    Kept = 2
    Shown = 1
CHECK_DEADLOCK FALSE
INVARIANTS
    TypeOK
    NothingUnread
    FailureExplained
PROPERTIES
    Contract
    Returns
