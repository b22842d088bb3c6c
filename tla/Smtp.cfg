SPECIFICATION Spec
CONSTANTS
    Clients = {c1, c2}
    Mailers = {c2}
    Boxes = {b, odd}
    Unopenable = {odd}
    MaxMails = 2
    MaxLines = 1
    BodyIds = {1}
INVARIANTS TypeOK AckedIsStored InStep Retrievable NobodyWaitsForEver
