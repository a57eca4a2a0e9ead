\* Two threads ask for a postcode and for a county while others write.
SPECIFICATION Spec
CONSTANTS
  Threads = {t1, t2}
  Nobody = nobody
  Queries <- MCQueries
  Outcode <- MCOutcode
  Lower <- MCLower
  Rows <- MCRows
  Empty = ""
  NoAnswer = none
INVARIANTS
  MetaTypeOK
PROPERTIES
  CallsGoOn
