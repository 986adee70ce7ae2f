\* Two writers on the file and one client, one failing mmap, one configuration.
\* Writers and clients end, and the HAL idles: no deadlock, captures go on.
SPECIFICATION Spec
CONSTANTS
    Writers = {w1, w2}
    Clients = {c1}
    Fds = {3, 4, 5, 6, 7}
    MaxRetries = 1
    MaxConfigures = 1
    MaxFailures = 1
    None = None
INVARIANTS
    DescriptorsBounded
    SteadyFrameConverted
PROPERTIES
    FormatSettles
