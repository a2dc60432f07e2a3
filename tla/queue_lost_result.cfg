\* A third upload arrives while the second one's task runs.
SPECIFICATION Spec
CONSTANTS
    Requests = {r1, r2, r3}
    Feeders = {f1}
    Workers = {w1}
    Upload = upload
    Audio = {upload}
    Files = {file}
    IdOf <- SameUpload
    None = none
INVARIANTS
    WaiterIsServed
