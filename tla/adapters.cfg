\* Three instances that migrate at once, with two faults.
SPECIFICATION AdSpec
CONSTANTS
  Instances = {"p1", "p2", "p3"}
  Last = 2
  MaxFaults = 2
INVARIANTS AdTypeOK MigrationsSafe MailHonest ObjectsHonest ReportsTrue NotesKept CaptureSafe HTTPSound
\* All instances may be up; a listing, a message or a response may be done.
CHECK_DEADLOCK FALSE
