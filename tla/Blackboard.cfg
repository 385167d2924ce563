SPECIFICATION Spec
CONSTANTS
    Session = {s1, s2, s3}
    Value = {v1, v2}
    Absent = Absent
    NoAnswer = NoAnswer
    MaxVersion = 4
INVARIANTS TypeOK CasSound
PROPERTY IsRegister
