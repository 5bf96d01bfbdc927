SPECIFICATION FairSpec
CONSTANTS
    usb = usb
    stream = stream
    file = file
    Cameras <- OfEachKind
    Usb <- UsbOnly
    Rtsp <- StreamOnly
    Stuck <- StreamOnly
    Operator = "operator"
    Nobody = nobody
CHECK_DEADLOCK FALSE
INVARIANTS
    Isolated
PROPERTIES
    ComesBack
