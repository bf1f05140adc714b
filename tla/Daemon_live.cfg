SPECIFICATION DaemonSpec
CONSTANTS
    Nobody = Nobody
    Daemons = {d1, d2}
    Clis = {c1, c2}
    MaxQueue = 1
INVARIANTS DaemonTypeOK NotDeaf
PROPERTIES Found Restarted
