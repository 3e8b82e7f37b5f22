------------------------------ MODULE MCDomains ------------------------------
EXTENDS Domains

MCLetters == {97, 98}
\* All files of up to eight bytes, the longest too large.
MCTexts == BoundedSeq(MCLetters \cup {Newline, Dot}, 8)
=============================================================================
