\* Two threads, the handler that sleeps and one that does not.
CONSTANTS
    t1 = t1
    t2 = t2
    Thread = {t1, t2}
    Called = {"do_page_fault", "handle_pfn_map"}
SPECIFICATION FairSpec
\* A thread that has gone wild or is lost has stopped the machine.
CHECK_DEADLOCK FALSE
INVARIANTS TypeOK KernelRestored LiveCallsServed OnlySleepersLost
PROPERTY UnloadCompletes
