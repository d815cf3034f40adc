-------------------------- MODULE MCDownloadAttempt --------------------------
(* Small instances of DownloadAttempt for TLC.                             *)
EXTENDS DownloadAttempt

CONSTANTS nl, sp, pct, info, rec, mp4, m4a, err, lic, word

\* Two files, progress, lines that end with the stream, blank, indented and empty lines,
\* the advisory, an error that has the buffer full before it, and the line with both key
\* words that the code quotes.
Outs == {<<info, rec, mp4, nl>>, <<pct, nl, sp, rec, mp4, nl>>, <<rec, mp4, nl, rec, m4a>>, <<nl, sp, nl, word>>,
         <<rec, mp4, pct, nl, word>>, <<word, err, nl, pct>>, <<>>}
Errs == {<<err, nl, pct>>, <<lic, err>>, <<rec, mp4, nl, err>>, <<err, nl, word, nl>>, <<>>}
ManyTexts == [out : Outs, err : Errs]
=============================================================================
