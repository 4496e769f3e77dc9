SPECIFICATION Spec
CONSTANTS
    Ciphers <- OneCipher
    CertLen = 40
    KeyLen = 48
    Free = {0, 140, 500}
    MaxEvents = 4
    MaxIgnored = 1
CHECK_DEADLOCK FALSE
PROPERTIES
    Transactional
