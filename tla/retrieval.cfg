\* A server with two threads and a container, two databases, one fault.
SPECIFICATION Spec
CONSTANTS
    t1 = t1
    t2 = t2
    t3 = t3
    server = server
    container = container
    Threads = {t1, t2, t3}
    Processes = {server, container}
    ProcessOf <- ServerAndContainer
    Default = default
    Databases = {default, project}
    NoDatabase = NoDatabase
    Uploads = {u1}
    NoUpload = NoUpload
    Texts <- SomeTexts
    MaxFaults = 1
INVARIANTS TypeOK SearchWorks OneCollection AnsweredIsFound
PROPERTIES HalfMadeIsRepaired RequestEnds
